---- MODULE Spec2Model ----
(***************************************************************************)
(* Connection lifecycle of TionInstance (custom_components/ha_tion_btle/   *)
(* __init__.py): one persistent BLE session per device, guarded by a       *)
(* connect lock, an I/O lock, a process-wide connect semaphore and a       *)
(* circuit breaker.                                                        *)
(*                                                                         *)
(* The program is an asyncio program: a coroutine runs without             *)
(* interruption until it awaits something that really suspends it.  Every  *)
(* action below is one such uninterrupted run of one task: from the point  *)
(* where it was resumed up to its next suspension.                         *)
(*                                                                         *)
(* Time is time.monotonic(), counted in units of 1/640 s, so that 0.15 s,  *)
(* 0.25 s and every value of 0.25 * 1.5^k below 2 s are whole numbers.     *)
(* The origin of that clock is arbitrary and the program only compares     *)
(* timestamps with the current reading, so the current reading is taken    *)
(* as the origin: when time passes (Tick), every stored timestamp moves    *)
(* back by the time passed.  A timestamp that a comparison can no longer   *)
(* tell from an older one stops moving.                                    *)
(***************************************************************************)
EXTENDS Integers, Sequences, FiniteSets, TLC

VARIABLES sem, sem_waiters, sess, task, retries_left, faults_left, inputs,
          pp, mgr

vars == <<sem, sem_waiters, sess, task, retries_left, faults_left, inputs,
          pp, mgr>>

\* the variables of TionInstance and its callers
tionVars == <<sem, sem_waiters, sess, task, retries_left, faults_left, inputs>>

\* time.monotonic()
now == 0

\* ------------------------------------------------------------------ bounds

(* The runs differ in who is invoked how often and in how many priming     *)
(* attempts, of all callers together, the driver lets end in a retry       *)
(* (Configs below).                                                        *)

\* A refresher invoked twice and a commander: the commander's invocations.
MaxCalls == 2

\* Two callers of one session, each invoked once: retried priming attempts.
PairRetries == 1

\* Two sessions in one process: invocations of the first one's refresher.
GateCalls == 1

\* One refresher alone, invoked twice: retried priming attempts.
MaxRetries == 8

\* One refresher alone, priming never retried: its invocations.
SoloCalls == 5

\* Two sessions with two callers on one: driver calls that raise.
GateFaults == 2

\* SpecData: the refreshes of its refresher, and the driver calls that raise
DataCalls == 2
DataFaults == 1

\* SpecLive: the driver calls that raise
LiveFaults == 2

\* SpecPrime: the driver calls that raise in the run of three callers
PrimeFaults == 1

\* SpecPer: the Peripheral objects the worker publishes
MaxPers == 2

\* SpecPer: the operations of the calling thread
PerOps == 2

\* SpecPer: the connect attempts that fail
PerConnectFaults == 7

\* SpecMgr: the calls each thread makes to BleManager
MgrCalls == 2

\* ------------------------------------------------------- program constants

Sec(n) == n * 640

\* self._initial_settle_s = 2.5
InitialSettle == 1600
\* asyncio.sleep(0.15) at the start of _prime_services
PrimeSettle == 96
\* self._prime_sleep_s = 0.25
PrimeSleep == 160
\* max(0.25, self._prime_sleep_s)
PrimeSleepFloor == 160
\* sleep_s = min(sleep_s * 1.5, 2.0)
PrimeSleepCap == 1280
\* self._prime_timeout_s = 60.0
PrimeTimeout == 38400
\* not_ready_streak >= 7
FastFailStreak == 7
\* elapsed < 10.0
FastFailWindow == 6400
\* min(self._breaker_level + 1, 3)
MaxLevel == 3
\* min(10 * 2 ** (fail_count - 1), 60), seconds
BackoffBase == 10
BackoffCap == 60
\* persistent.py, _worker: min(backoff, 30.0)
BackoffMax == 30
\* self.__keep_alive, seconds: the configured keep-alive interval
KeepAlive == 60

\* [15, 45, 120, 300][self._breaker_level], seconds
Stage == <<15, 45, 120, 300>>

\* random.uniform(0.8, 1.2), in percent: both ends and values between them
JitterPct == {80, 93, 120}

\* ------------------------------------------------------------ the callers

Sessions == {1, 2}
Tasks == {"R1", "S1", "R2"}
TaskSession == [R1 |-> 1, S1 |-> 1, R2 |-> 2]
TaskOp == [R1 |-> "refresh", S1 |-> "set", R2 |-> "refresh"]
TasksOf(s) == {t \in Tasks : TaskSession[t] = s}

NoTask == "none"

\* ------------------------------------------------------------ error values

(* str(e).lower() is read by the program only through substring tests.  A  *)
(* text is modelled by the set of the tested substrings it contains.       *)
HT == "handshake timeout"
SNR == "services are not ready"
SD == "service discovery has not been performed"
SDY == "service discovery has not been performed yet"
MT == "maxtriesexceeded"
SVC == "service"

NoErr == [kind |-> "none", text |-> {}, tag |-> "none"]

\* What the driver's connect(), get() and set() can raise.
MaxTriesErr == [kind |-> "MaxTries", text |-> {}, tag |-> "driver"]
NotReadyErr == [kind |-> "Bleak", text |-> {SDY, SD, SVC}, tag |-> "driver"]
BleakOtherErr == [kind |-> "Bleak", text |-> {}, tag |-> "driver"]
OtherErr == [kind |-> "Other", text |-> {}, tag |-> "driver"]
DriverErrors == {MaxTriesErr, NotReadyErr, BleakOtherErr, OtherErr}
Outcomes == {NoErr} \cup DriverErrors

UpdateFailed(text, tag) == [kind |-> "UpdateFailed", text |-> text, tag |-> tag]

\* type(e).__name__, as far as the substring tests can see it
TypeName(e) == IF e.kind = "MaxTries" THEN {MT} ELSE {}

Max(a, b) == IF a > b THEN a ELSE b
Min(a, b) == IF a < b THEN a ELSE b

RECURSIVE Pow2(_)
Pow2(n) == IF n <= 0 THEN 1 ELSE 2 * Pow2(n - 1)

\* ------------------------------------------------------- failure classifier

BleakServiceNotReady(e) == SDY \in e.text \/ SNR \in e.text

IsHandshake(reason) ==
    \/ HT \in reason
    \/ SNR \in reason
    \/ SD \in reason
    \/ MT \in reason

\* ----------------------------------------------------------------- backoff

Backoff(fail_count) == Min(BackoffBase * Pow2(fail_count - 1), BackoffCap)

NextLevel(level) == Min(level + 1, MaxLevel)

SilenceOldLevel(level, pct) == (Stage[level] * pct) \div 100

\* int(silence * random.uniform(0.8, 1.2)), seconds
Silence(level, pct) == (Stage[level + 1] * pct) \div 100

\* ------------------------------------------------------------ the snapshot

(* A snapshot is a dict: a function from its keys to values.  True and     *)
(* False are written "True" and "False", so that a flag can be compared    *)
(* with "on" as Python compares them (unequal).  filter_remain is counted  *)
(* in tenths of a day; fan_speed carries the Python type it has.           *)

\* self.data before the first refresh: None (no dict of the program is empty)
NoData == <<>>

\* the original_args of a caller that is not in set
NoArgs == <<>>

\* self.rssi
Rssi == 0

\* _decode_state
DecodeState(state) == IF state = "on" THEN "True" ELSE "False"

\* math.ceil
Ceil(x) == ((x + 9) \div 10) * 10

\* int()
ToInt(x) == <<"int", x[2]>>

\* async_update_state: the response of get() becomes the returned snapshot
Normalize(response) ==
    [k \in DOMAIN response \cup {"is_on", "is_heating", "rssi"} |->
        CASE k = "is_on" -> DecodeState(response["state"])
          [] k = "heater" -> DecodeState(response["heater"])
          [] k = "is_heating" -> DecodeState(response["heating"])
          [] k = "filter_remain" -> Ceil(response["filter_remain"])
          [] k = "fan_speed" -> ToInt(response["fan_speed"])
          [] k = "rssi" -> Rssi
          [] OTHER -> response[k]]

\* set: kwargs as they are when original_args = kwargs.copy() is taken
OriginalArgs(kwargs) ==
    [k \in DOMAIN kwargs |->
        IF k = "fan_speed" THEN ToInt(kwargs[k]) ELSE kwargs[k]]

\* dict.update
DictUpdate(d, other) ==
    [k \in DOMAIN d \cup DOMAIN other |->
        IF k \in DOMAIN other THEN other[k] ELSE d[k]]

OnOff == {"on", "off"}

\* the keys of the response that the normalization reads
RequiredKeys == {"state", "heater", "heating", "filter_remain", "fan_speed"}

\* the dict d without the key k
Without(d, k) == [j \in DOMAIN d \ {k} |-> d[j]]

\* the responses of get() and the commands of the entities, in a plain run
PlainInputs ==
    [raws |-> {[state |-> "on", heater |-> "on", heating |-> "off",
                filter_remain |-> 123, fan_speed |-> <<"int", 2>>]},
     defective |-> {},
     cmds |-> {[is_on |-> "False"]},
     scheduled |-> FALSE,
     raises |-> DriverErrors]

(* and in a run that follows the cache; defective are the responses that   *)
(* lack a key                                                              *)
RichInputs ==
    [raws |-> [state : OnOff, heater : OnOff, heating : OnOff,
               filter_remain : {123}, fan_speed : {<<"int", 2>>, <<"str", 2>>}],
     defective |-> {Without([state |-> "on", heater |-> "off",
                             heating |-> "off", filter_remain |-> 123,
                             fan_speed |-> <<"int", 2>>], k) :
                       k \in RequiredKeys},
     cmds |-> {[is_on |-> "False"],
               [heater |-> "True", is_on |-> "True"],
               [fan_speed |-> <<"str", 4>>, is_on |-> "True"]},
     scheduled |-> FALSE,
     raises |-> DriverErrors]

\* ------------------------------------------------------------------- state

(* One TionInstance.  tion counts the protocol objects created so far (the *)
(* identity of self.__tion); link_up is the driver's side of the link: the *)
(* last connect() on the current object returned and no disconnect() has   *)
(* been called since.  The locks are asyncio.Lock: a holder and the FIFO   *)
(* of waiters.  data is the coordinator's self.data.  level_was_reset,     *)
(* refresh_streak and key_error (the last operation to end was a refresh   *)
(* that raised KeyError) only observe.                                     *)
InitSess ==
    [is_connected |-> FALSE,
     breaker_until_ts |-> 0,
     breaker_level |-> 0,
     need_hard_reset |-> FALSE,
     fail_count |-> 0,
     reconnect_delay |-> BackoffBase,
     update_interval |-> KeepAlive,
     tion |-> 0,
     link_up |-> FALSE,
     connect_lock |-> NoTask,
     connect_waiters |-> <<>>,
     io_lock |-> NoTask,
     io_waiters |-> <<>>,
     level_was_reset |-> FALSE,
     refresh_streak |-> 0,
     key_error |-> FALSE,
     data |-> NoData]

(* One caller.  pc is the await the coroutine is suspended at; ctx is the  *)
(* call site of the _prime_services it is in; started, sleep_s and         *)
(* not_ready_streak are that call's locals; err is the exception being     *)
(* handled.  due is the time of the coordinator's timer for the next       *)
(* refresh.  seen, connect_raised, ready_after (the NotReady failures      *)
(* before the priming of its connect sequence succeeded) and io_calls (the *)
(* get()/set() calls of this operation outside a priming loop) and         *)
(* not_ready_run (the NotReady failures in a row that the priming loop has  *)
(* just had) only observe.                                                 *)
InitTask(n) ==
    [pc |-> "idle",
     calls_left |-> n,
     err |-> NoErr,
     ctx |-> "none",
     io_next |-> "none",
     started |-> 0,
     sleep_s |-> 0,
     not_ready_streak |-> 0,
     wake_at |-> 0,
     seen |-> "none",
     connect_raised |-> FALSE,
     ready_after |-> 0,
     original_args |-> NoArgs,
     due |-> 0,
     io_calls |-> 0,
     not_ready_run |-> 0]

Configs ==
    {[R1 |-> 2, S1 |-> MaxCalls, R2 |-> 0, retries |-> 0, faults |-> -1],
     [R1 |-> 1, S1 |-> 1, R2 |-> 0, retries |-> PairRetries, faults |-> -1],
     [R1 |-> GateCalls, S1 |-> 0, R2 |-> 1, retries |-> 0, faults |-> -1],
     [R1 |-> 2, S1 |-> 0, R2 |-> 0, retries |-> MaxRetries, faults |-> -1],
     [R1 |-> SoloCalls, S1 |-> 0, R2 |-> 0, retries |-> 0, faults |-> -1]}

\* retries_left: the priming attempts the driver may still let end in a
\* retry; -1 is no limit.
Cur == [sem |-> sem, sem_waiters |-> sem_waiters, sess |-> sess, task |-> task]

Commit(w) ==
    /\ sem' = w.sem
    /\ sem_waiters' = w.sem_waiters
    /\ sess' = w.sess
    /\ task' = w.task
    /\ inputs' = inputs
    /\ UNCHANGED <<pp, mgr>>

Commit0(w) == Commit(w) /\ UNCHANGED <<retries_left, faults_left>>

(* faults_left: the calls the driver may still let raise, of all callers   *)
(* together; -1 when the run does not limit them.  inputs.raises: the      *)
(* errors the driver raises in this run.                                   *)
MayRaise(out) == out # NoErr => faults_left # 0 /\ out \in inputs.raises

Raised(out) ==
    faults_left' = IF out # NoErr /\ faults_left > 0
                   THEN faults_left - 1
                   ELSE faults_left

\* the state after a driver call that ended with out
CommitCall(w, out) ==
    /\ MayRaise(out)
    /\ Commit(w)
    /\ Raised(out)
    /\ UNCHANGED retries_left

\* --------------------------------------------------------- _mark_disconnected

MarkDisconnectedUncapped(ss, reason, j) ==
    LET fc == ss.fail_count + 1
        hs == IsHandshake(reason)
        lvl == IF hs THEN ss.breaker_level + 1 ELSE ss.breaker_level
    IN  [ss EXCEPT
            !.fail_count = fc,
            !.breaker_level = lvl,
            !.breaker_until_ts =
                IF hs THEN now + Sec(Silence(Min(lvl, MaxLevel), Head(j))) ELSE @,
            !.need_hard_reset = IF hs THEN TRUE ELSE @,
            !.reconnect_delay = Backoff(fc),
            !.is_connected = FALSE,
            !.update_interval = Backoff(fc)]

MarkDisconnected(ss, reason, j) ==
    LET fc == ss.fail_count + 1
        hs == IsHandshake(reason)
        lvl == IF hs THEN NextLevel(ss.breaker_level) ELSE ss.breaker_level
    IN  [ss EXCEPT
            !.fail_count = fc,
            !.breaker_level = lvl,
            !.breaker_until_ts = IF hs THEN now + Sec(Silence(lvl, Head(j))) ELSE @,
            !.need_hard_reset = IF hs THEN TRUE ELSE @,
            !.reconnect_delay = Backoff(fc),
            !.is_connected = FALSE,
            !.update_interval = Backoff(fc)]

Mark(w, s, reason, j) ==
    [w EXCEPT !.sess[s] = MarkDisconnected(@, reason, j)]

NeedHardReset(w, s, cond) ==
    IF cond THEN [w EXCEPT !.sess[s].need_hard_reset = TRUE] ELSE w

\* ------------------------------------------------- the end of an operation

(* The coroutine returns or raises to its caller.  A success of any kind   *)
(* ends the streak of failed refreshes; a failed command spoils it.  In a  *)
(* scheduled run the coordinator sets its timer for the next refresh to    *)
(* update_interval from now.                                               *)
Finish(w, t, ok) ==
    LET s == TaskSession[t]
        streak == w.sess[s].refresh_streak
    IN  [w EXCEPT
            !.task[t] =
                [InitTask(@.calls_left) EXCEPT
                    !.due = IF inputs.scheduled /\ TaskOp[t] = "refresh"
                            THEN now + Sec(w.sess[s].update_interval)
                            ELSE 0],
            !.sess[s].key_error = FALSE,
            !.sess[s].refresh_streak =
                IF ok THEN 0
                ELSE IF TaskOp[t] = "refresh" /\ streak >= 0 THEN streak + 1
                ELSE -1]

\* setattr(self, "_fail_count", 0); self.update_interval = self.__keep_alive
Succeeded(w, t) ==
    LET s == TaskSession[t]
    IN  Finish([w EXCEPT !.sess[s].fail_count = 0,
                         !.sess[s].update_interval = KeepAlive], t, TRUE)

RefreshReturnMarks(w, t, response) ==
    LET s == TaskSession[t]
    IN  IF RequiredKeys \subseteq DOMAIN response
        THEN Succeeded([w EXCEPT !.sess[s].data = Normalize(response)], t)
        ELSE [Finish(Mark(w, s, {}, <<>>), t, FALSE)
                 EXCEPT !.sess[s].key_error = TRUE]

(* async_update_state after a get() that returned: the failure count and   *)
(* the interval are reset, the response is normalized and returned, and    *)
(* the coordinator keeps what its update method returned as self.data.  A  *)
(* response that lacks a key raises KeyError from the normalization, past  *)
(* the handlers of the try statement.                                      *)
RefreshReturn(w, t, response) ==
    LET s == TaskSession[t]
    IN  IF RequiredKeys \subseteq DOMAIN response
        THEN Succeeded([w EXCEPT !.sess[s].data = Normalize(response)], t)
        ELSE [Finish([w EXCEPT !.sess[s].fail_count = 0,
                               !.sess[s].update_interval = KeepAlive],
                     t, FALSE)
                 EXCEPT !.sess[s].key_error = TRUE]

SetElseKeepsCache(w, t) ==
    LET s == TaskSession[t]
    IN  IF w.sess[s].data = NoData
        THEN Finish(w, t, FALSE)
        ELSE Succeeded(w, t)

(* set: the else branch.  None has no update: before the first refresh has *)
(* succeeded the branch raises AttributeError at its first statement.       *)
SetElse(w, t) ==
    LET s == TaskSession[t]
    IN  IF w.sess[s].data = NoData
        THEN Finish(w, t, FALSE)
        ELSE Succeeded([w EXCEPT !.sess[s].data =
                                     DictUpdate(@, w.task[t].original_args)], t)

\* ---------------------------------------------------------------- the locks

\* the call named by pc begins, with the I/O lock
StartIo(w, t, pc) ==
    [w EXCEPT !.sess[TaskSession[t]].io_lock = t,
              !.task[t].pc = pc,
              !.task[t].io_next = "none",
              !.task[t].io_calls = IF pc = "prime_get" THEN @ ELSE @ + 1]

AcquireIoNoLock(w, t, pc) == StartIo(w, t, pc)

\* async with self._io_lock, then the call named by pc
AcquireIo(w, t, pc) ==
    LET s == TaskSession[t]
    IN  IF w.sess[s].io_lock = NoTask /\ w.sess[s].io_waiters = <<>>
        THEN StartIo(w, t, pc)
        ELSE [w EXCEPT !.sess[s].io_waiters = Append(@, t),
                       !.task[t].pc = "io_wait",
                       !.task[t].io_next = pc]

ReleaseIoNever(w, t) == w

\* leaving async with self._io_lock
ReleaseIo(w, t) == [w EXCEPT !.sess[TaskSession[t]].io_lock = NoTask]

(* Leaving async with self._connect_lock.  The callers queued behind this  *)
(* one learn how its connect sequence ended, if it ran one.                *)
ReleaseConnect(w, t, outcome) ==
    LET s == TaskSession[t]
        q == w.sess[s].connect_waiters
        queued == {q[i] : i \in DOMAIN q}
    IN  [w EXCEPT
            !.sess[s].connect_lock = NoTask,
            !.task = [u \in Tasks |->
                        IF u \in queued /\ outcome # "none"
                        THEN [@[u] EXCEPT !.seen = outcome]
                        ELSE @[u]]]

\* async with GLOBAL_BLE_CONNECT_SEM: await self.__tion.connect()
AcquireSem(w, t) ==
    IF w.sem = NoTask /\ w.sem_waiters = <<>>
    THEN [w EXCEPT !.sem = t, !.task[t].pc = "connect"]
    ELSE [w EXCEPT !.sem_waiters = Append(@, t), !.task[t].pc = "sem_wait"]

ReleaseSemNever(w) == w

\* leaving async with GLOBAL_BLE_CONNECT_SEM, by return or by exception
ReleaseSem(w) == [w EXCEPT !.sem = NoTask]

\* ---------------------------------------------------------- _prime_services

\* started = time.monotonic(); await asyncio.sleep(0.15)
PrimeStart(w, t, ctx) ==
    [w EXCEPT !.task[t].pc = "prime_settle",
              !.task[t].ctx = ctx,
              !.task[t].err = NoErr,
              !.task[t].started = now,
              !.task[t].wake_at = now + PrimeSettle]

\* ------------------------------------------ the handlers of the operations

RefreshInnerExceptRetriesAgain(w, t, inner, j) ==
    LET s == TaskSession[t]
        w1 == NeedHardReset(w, s, TRUE)
        w2 == Mark(w1, s, {MT} \cup inner.text, j)
    IN  IF inner.kind = "MaxTries"
        THEN PrimeStart(w, t, "retry_get")
        ELSE Finish(w2, t, FALSE)

\* async_update_state, except Exception as inner (the re-prime and retry)
RefreshInnerExcept(w, t, inner, j) ==
    LET s == TaskSession[t]
        w1 == NeedHardReset(w, s, TRUE)
        w2 == Mark(w1, s, {MT} \cup inner.text, j)
    IN  Finish(w2, t, FALSE)

RefreshExceptDropsCache(w, t, e, j) ==
    LET s == TaskSession[t]
        w0 == [w EXCEPT !.sess[s].data = NoData]
    IN  CASE e.kind = "MaxTries" -> PrimeStart(w, t, "retry_get")
          [] e.kind = "Bleak" ->
                Finish(Mark(NeedHardReset(w0, s, BleakServiceNotReady(e)),
                            s, e.text, j), t, FALSE)
          [] e.kind = "UpdateFailed" ->
                Finish(Mark(NeedHardReset(w0, s, SNR \in e.text),
                            s, e.text, j), t, FALSE)
          [] OTHER ->
                Finish(Mark(w0, s, TypeName(e) \cup e.text, j), t, FALSE)

\* async_update_state, the handlers of the outer try
RefreshExcept(w, t, e, j) ==
    LET s == TaskSession[t]
    IN  CASE e.kind = "MaxTries" -> PrimeStart(w, t, "retry_get")
          [] e.kind = "Bleak" ->
                Finish(Mark(NeedHardReset(w, s, BleakServiceNotReady(e)),
                            s, e.text, j), t, FALSE)
          [] e.kind = "UpdateFailed" ->
                Finish(Mark(NeedHardReset(w, s, SNR \in e.text),
                            s, e.text, j), t, FALSE)
          [] OTHER ->
                Finish(Mark(w, s, TypeName(e) \cup e.text, j), t, FALSE)

SetExceptNoMark(w, t, e, j) ==
    LET s == TaskSession[t]
    IN  IF e.kind = "Bleak"
        THEN Finish(NeedHardReset(w, s, BleakServiceNotReady(e)), t, FALSE)
        ELSE Finish(NeedHardReset(Mark(w, s, TypeName(e) \cup e.text, j),
                                  s, SVC \in e.text), t, FALSE)

\* set, the handlers of the outer try
SetExcept(w, t, e, j) ==
    LET s == TaskSession[t]
    IN  IF e.kind = "Bleak"
        THEN Finish(Mark(NeedHardReset(w, s, BleakServiceNotReady(e)),
                         s, e.text, j), t, FALSE)
        ELSE Finish(NeedHardReset(Mark(w, s, TypeName(e) \cup e.text, j),
                                  s, SVC \in e.text), t, FALSE)

\* _ensure_connected raised to the operation that called it
CallerExcept(w, t, e, j) ==
    IF TaskOp[t] = "refresh" THEN RefreshExcept(w, t, e, j) ELSE SetExcept(w, t, e, j)

\* _ensure_connected returned: async with self._io_lock, then get() or set()
AfterEnsure(w, t) ==
    AcquireIo(w, t, IF TaskOp[t] = "refresh" THEN "get" ELSE "set")

\* --------------------------------------------------------- _ensure_connected

EcElseKeepsBreaker(w, t) ==
    LET s == TaskSession[t]
        w1 == [w EXCEPT
                 !.sess[s].is_connected = TRUE,
                 !.sess[s].fail_count = 0,
                 !.sess[s].update_interval = KeepAlive]
    IN  AfterEnsure(ReleaseConnect(w1, t, "ok"), t)

\* the else branch: the connect sequence succeeded
EcElse(w, t) ==
    LET s == TaskSession[t]
        w1 == [w EXCEPT
                 !.sess[s].is_connected = TRUE,
                 !.sess[s].fail_count = 0,
                 !.sess[s].breaker_until_ts = 0,
                 !.sess[s].breaker_level = 0,
                 !.sess[s].update_interval = KeepAlive,
                 !.sess[s].level_was_reset = @ \/ w.sess[s].breaker_level > 0]
    IN  AfterEnsure(ReleaseConnect(w1, t, "ok"), t)

\* except Exception as e: await self.__tion.disconnect()
EcExcept(w, t, e) ==
    [w EXCEPT !.task[t].pc = "ec_disconnect", !.task[t].err = e]

\* the locals of a _prime_services call go with it
PrimeEnd(w, t) ==
    [w EXCEPT !.task[t].ctx = "none",
              !.task[t].err = NoErr,
              !.task[t].started = 0,
              !.task[t].sleep_s = 0,
              !.task[t].not_ready_streak = 0,
              !.task[t].not_ready_run = 0]

\* _prime_services returned
PrimeReturn(w, t) ==
    CASE w.task[t].ctx = "ensure" ->
            [EcElse(PrimeEnd(w, t), t) EXCEPT
                !.task[t].ready_after = w.task[t].not_ready_streak]
      [] w.task[t].ctx = "retry_get" -> AcquireIo(PrimeEnd(w, t), t, "retry_get")
      [] OTHER -> AcquireIo(PrimeEnd(w, t), t, "retry_set")

\* _prime_services raised UpdateFailed
PrimeRaise(w, t, e, j) ==
    CASE w.task[t].ctx = "ensure" -> EcExcept(PrimeEnd(w, t), t, e)
      [] w.task[t].ctx = "retry_get" -> RefreshInnerExcept(PrimeEnd(w, t), t, e, j)
      [] OTHER -> SetExcept(PrimeEnd(w, t), t, e, j)

PrimeLoopNoBudget(w, t, j) == AcquireIo(w, t, "prime_get")

\* while time.monotonic() - started < self._prime_timeout_s
PrimeLoop(w, t, j) ==
    IF now - w.task[t].started < PrimeTimeout
    THEN AcquireIo(w, t, "prime_get")
    ELSE PrimeRaise(w, t, UpdateFailed({HT, SNR, SVC}, "hs_timeout"), j)

\* await asyncio.sleep(sleep_s), resumed by PrimeSleepDone
PrimeSleepStart(w, t, e) ==
    [w EXCEPT !.task[t].pc = "prime_sleep",
              !.task[t].err = e,
              !.task[t].wake_at = now + w.task[t].sleep_s]

PrimeGetFailedNoFastFail(w, t, e, j) ==
    CASE e.kind = "MaxTries" ->
            PrimeSleepStart([w EXCEPT !.task[t].not_ready_run = 0], t, e)
      [] e.kind = "Bleak" /\ BleakServiceNotReady(e) ->
            PrimeSleepStart(
                [w EXCEPT !.task[t].not_ready_streak = @ + 1,
                          !.task[t].not_ready_run = @ + 1], t, e)
      [] e.kind = "Bleak" -> PrimeRaise(w, t, UpdateFailed(e.text, "hs_failed"), j)
      [] OTHER -> PrimeRaise(w, t, UpdateFailed(e.text, "hs_unexpected"), j)

\* the except branches of the loop body
PrimeGetFailed(w, t, e, j) ==
    CASE e.kind = "MaxTries" ->
            PrimeSleepStart([w EXCEPT !.task[t].not_ready_run = 0], t, e)
      [] e.kind = "Bleak" /\ BleakServiceNotReady(e) ->
            LET streak == w.task[t].not_ready_streak + 1
                w1 == [w EXCEPT !.task[t].not_ready_streak = streak,
                                !.task[t].not_ready_run = @ + 1]
            IN  IF streak >= FastFailStreak
                   /\ now - w.task[t].started < FastFailWindow
                THEN PrimeRaise(w1, t, UpdateFailed({HT, SNR, SVC}, "hs_fast"), j)
                ELSE PrimeSleepStart(w1, t, e)
      [] e.kind = "Bleak" -> PrimeRaise(w, t, UpdateFailed(e.text, "hs_failed"), j)
      [] OTHER -> PrimeRaise(w, t, UpdateFailed(e.text, "hs_unexpected"), j)

\* if self._need_hard_reset: await self._hard_reset_ble(...), else the connect
EcAttempt(w, t) ==
    IF w.sess[TaskSession[t]].need_hard_reset
    THEN [w EXCEPT !.task[t].pc = "hr_disconnect"]
    ELSE AcquireSem(w, t)

EcBodyNoFastPath(w, t, j) ==
    LET s == TaskSession[t]
    IN  IF now < w.sess[s].breaker_until_ts
        THEN CallerExcept(ReleaseConnect(w, t, "none"), t,
                          UpdateFailed({}, "breaker_open"), j)
        ELSE EcAttempt(w, t)

EcBodyNoBreaker(w, t, j) ==
    LET s == TaskSession[t]
    IN  IF w.sess[s].is_connected
        THEN AfterEnsure(ReleaseConnect(w, t, "none"), t)
        ELSE EcAttempt(w, t)

\* The body under the connect lock, up to its first suspension.
EcBody(w, t, j) ==
    LET s == TaskSession[t]
    IN  IF w.sess[s].is_connected
        THEN AfterEnsure(ReleaseConnect(w, t, "none"), t)
        ELSE IF now < w.sess[s].breaker_until_ts
        THEN CallerExcept(ReleaseConnect(w, t, "none"), t,
                          UpdateFailed({}, "breaker_open"), j)
        ELSE EcAttempt(w, t)

EnsureConnectedNoLock(w, t, j) == EcBody(w, t, j)

\* async with self._connect_lock
EnsureConnected(w, t, j) ==
    LET s == TaskSession[t]
    IN  IF w.sess[s].connect_lock = NoTask /\ w.sess[s].connect_waiters = <<>>
        THEN EcBody([w EXCEPT !.sess[s].connect_lock = t], t, j)
        ELSE [w EXCEPT !.sess[s].connect_waiters = Append(@, t),
                       !.task[t].pc = "lock_wait"]

\* ------------------------------------------------------------------ actions

(* The draws of random.uniform that one run of a task can make: one per    *)
(* _mark_disconnected whose reason is a handshake failure.                 *)
OneDraw == {<<a>> : a \in JitterPct}
TwoDraws == {<<a, b>> : a \in JitterPct, b \in JitterPct}

\* "Breaker open: waiting ...s before reconnect" is no handshake failure
NoDraw == <<>>

\* The scheduler calls async_update_state, or an entity calls set.
Invoke(t) ==
    /\ task[t].pc = "idle"
    /\ task[t].calls_left # 0
    /\ now >= task[t].due
    /\ \E kwargs \in IF TaskOp[t] = "set" THEN inputs.cmds ELSE {NoArgs} :
          Commit0(EnsureConnected(
              [Cur EXCEPT !.task[t].calls_left = IF @ > 0 THEN @ - 1 ELSE @,
                          !.task[t].original_args = OriginalArgs(kwargs)],
              t, NoDraw))

\* The connect lock was released and this caller is the first waiter.
ConnectLockAcquired(t) ==
    LET s == TaskSession[t]
    IN  /\ task[t].pc = "lock_wait"
        /\ sess[s].connect_lock = NoTask
        /\ Head(sess[s].connect_waiters) = t
        /\ Commit0(EcBody(
              [Cur EXCEPT !.sess[s].connect_lock = t,
                          !.sess[s].connect_waiters = Tail(@)], t, NoDraw))

(* _hard_reset_ble: disconnect() returned or raised (ignored); the protocol *)
(* object is replaced; back in _ensure_connected the request is cleared.    *)
HardResetDisconnected(t) ==
    LET s == TaskSession[t]
    IN  /\ task[t].pc = "hr_disconnect"
        /\ Commit0(AcquireSem(
              [Cur EXCEPT !.sess[s].tion = @ + 1,
                          !.sess[s].link_up = FALSE,
                          !.sess[s].is_connected = FALSE,
                          !.sess[s].need_hard_reset = FALSE], t))

\* The semaphore was released and this caller is the first waiter.
SemAcquired(t) ==
    /\ task[t].pc = "sem_wait"
    /\ sem = NoTask
    /\ Head(sem_waiters) = t
    /\ Commit0([Cur EXCEPT !.sem = t,
                          !.sem_waiters = Tail(@),
                          !.task[t].pc = "connect"])

\* self.__tion.connect() returned or raised.
ConnectDone(t) ==
    LET s == TaskSession[t]
    IN  /\ task[t].pc = "connect"
        /\ \E out \in Outcomes :
              LET w0 == ReleaseSem(Cur)
              IN  CommitCall(
                    IF out = NoErr
                    THEN [w0 EXCEPT !.sess[s].link_up = TRUE,
                                    !.task[t].pc = "settle",
                                    !.task[t].wake_at = now + InitialSettle]
                    ELSE EcExcept([w0 EXCEPT !.task[t].connect_raised = TRUE],
                                  t, out), out)

\* await asyncio.sleep(self._initial_settle_s) is over.
SettleDone(t) ==
    /\ task[t].pc = "settle"
    /\ now >= task[t].wake_at
    /\ Commit0(PrimeStart(Cur, t, "ensure"))

\* The 0.15 s pause of _prime_services is over: the loop begins.
PrimeSettleDone(t) ==
    /\ task[t].pc = "prime_settle"
    /\ now >= task[t].wake_at
    /\ \E j \in OneDraw :
          Commit0(PrimeLoop(
              [Cur EXCEPT !.task[t].sleep_s = Max(PrimeSleepFloor, PrimeSleep),
                          !.task[t].not_ready_streak = 0], t, j))

\* The I/O lock was released and this caller is the first waiter.
IoLockAcquired(t) ==
    LET s == TaskSession[t]
    IN  /\ task[t].pc = "io_wait"
        /\ sess[s].io_lock = NoTask
        /\ Head(sess[s].io_waiters) = t
        /\ Commit0(StartIo([Cur EXCEPT !.sess[s].io_waiters = Tail(@)],
                           t, task[t].io_next))

\* The get() of the priming loop returned or raised.
PrimeGetDone(t) ==
    /\ task[t].pc = "prime_get"
    /\ \E out \in Outcomes, j \in OneDraw :
          LET w0 == ReleaseIo(Cur, t)
              w1 == IF out = NoErr
                    THEN PrimeReturn(w0, t)
                    ELSE PrimeGetFailed(w0, t, out, j)
              retry == w1.task[t].pc = "prime_sleep"
          IN  /\ retry => retries_left # 0
              /\ MayRaise(out)
              /\ Commit(w1)
              /\ Raised(out)
              /\ retries_left' = IF retry /\ retries_left > 0
                                 THEN retries_left - 1 ELSE retries_left

\* The pause between two priming attempts is over.
PrimeSleepDone(t) ==
    /\ task[t].pc = "prime_sleep"
    /\ now >= task[t].wake_at
    /\ \E j \in OneDraw :
          Commit0(PrimeLoop(
              [Cur EXCEPT !.task[t].sleep_s =
                              Min((@ * 3) \div 2, PrimeSleepCap)], t, j))

(* _ensure_connected's except branch after its disconnect(): the session is *)
(* marked disconnected and the exception goes on to the operation.          *)
EcDisconnectDone(t) ==
    LET s == TaskSession[t]
        e == task[t].err
    IN  /\ task[t].pc = "ec_disconnect"
        /\ \E j \in TwoDraws :
              LET w0 == [Cur EXCEPT !.sess[s].link_up = FALSE,
                                    !.sess[s].is_connected = FALSE]
                  w1 == NeedHardReset(w0, s,
                            e.kind = "UpdateFailed" /\ SNR \in e.text)
                  w2 == Mark(w1, s, e.text, j)
              IN  Commit0(CallerExcept(ReleaseConnect(w2, t, "fail"),
                                      t, e, Tail(j)))

\* async_update_state: the get() under the I/O lock returned or raised.
GetDone(t) ==
    /\ task[t].pc = "get"
    /\ \E out \in Outcomes, j \in OneDraw,
          response \in inputs.raws \cup inputs.defective :
          LET w0 == ReleaseIo(Cur, t)
          IN  CommitCall(IF out = NoErr
                        THEN RefreshReturn(w0, t, response)
                        ELSE RefreshExcept(w0, t, out, j), out)

\* async_update_state: the get() after the re-prime returned or raised.
RetryGetDone(t) ==
    /\ task[t].pc = "retry_get"
    /\ \E out \in Outcomes, j \in OneDraw,
          response \in inputs.raws \cup inputs.defective :
          LET w0 == ReleaseIo(Cur, t)
          IN  CommitCall(IF out = NoErr
                        THEN RefreshReturn(w0, t, response)
                        ELSE RefreshInnerExcept(w0, t, out, j), out)

\* set: the first set() under the I/O lock returned or raised.
SetDone(t) ==
    /\ task[t].pc = "set"
    /\ \E out \in Outcomes, j \in OneDraw :
          LET w0 == ReleaseIo(Cur, t)
          IN  CommitCall(CASE out = NoErr -> SetElse(w0, t)
                          [] out.kind = "MaxTries" -> PrimeStart(w0, t, "retry_set")
                          [] OTHER -> SetExcept(w0, t, out, j), out)

\* set: the set() after the re-prime returned or raised.
RetrySetDone(t) ==
    /\ task[t].pc = "retry_set"
    /\ \E out \in Outcomes, j \in OneDraw :
          LET w0 == ReleaseIo(Cur, t)
          IN  CommitCall(IF out = NoErr
                        THEN SetElse(w0, t)
                        ELSE SetExcept(w0, t, out, j), out)

\* -------------------------------------------------------------------- time

Sleeping(t) == task[t].pc \in {"settle", "prime_settle", "prime_sleep"}

(* The event loop has something to run now: a sleeper that is due, or a    *)
(* waiter whose lock is free.  Time does not pass before it has run.       *)
Runnable(t) ==
    LET s == TaskSession[t]
    IN  \/ Sleeping(t) /\ now >= task[t].wake_at
        \/ /\ task[t].pc = "lock_wait"
           /\ sess[s].connect_lock = NoTask
           /\ Head(sess[s].connect_waiters) = t
        \/ /\ task[t].pc = "io_wait"
           /\ sess[s].io_lock = NoTask
           /\ Head(sess[s].io_waiters) = t
        \/ task[t].pc = "sem_wait" /\ sem = NoTask /\ Head(sem_waiters) = t

Priming(t) == task[t].ctx # "none"

(* The instants at which some comparison of the program with the clock     *)
(* changes its answer.                                                     *)
Deadlines ==
    {task[t].wake_at : t \in {u \in Tasks : Sleeping(u)}}
    \cup {task[t].due : t \in Tasks}
    \cup {sess[s].breaker_until_ts : s \in Sessions}
    \cup {task[t].started + FastFailWindow : t \in {u \in Tasks : Priming(u)}}
    \cup {task[t].started + PrimeTimeout : t \in {u \in Tasks : Priming(u)}}

(* Time passes, up to the next such instant d.  A deadline that has passed *)
(* stays at the origin; a start older than the priming timeout stays there.*)
Tick ==
    /\ \A t \in Tasks : ~Runnable(t)
    /\ \E d \in Deadlines :
          /\ d > now
          /\ \A e \in Deadlines : e > now => d <= e
          /\ sess' = [s \in Sessions |->
                        [sess[s] EXCEPT !.breaker_until_ts = Max(@ - d, now)]]
          /\ task' = [t \in Tasks |->
                        [task[t] EXCEPT
                           !.wake_at = Max(@ - d, now),
                           !.due = Max(@ - d, now),
                           !.started = IF Priming(t)
                                       THEN Max(@ - d, now - PrimeTimeout)
                                       ELSE @]]
    /\ UNCHANGED <<sem, sem_waiters, retries_left, faults_left, inputs, pp, mgr>>

\* --------------------------------------------- persistent.py: the threads

(* One PersistentPeripheral and its threads: the worker ("W", started by   *)
(* __init__), a thread that calls read, write, subscribe and               *)
(* wait_for_notifications ("C") and a thread that calls disconnect ("D").  *)
(* The threads are preempted anywhere: an action is one access to the      *)
(* shared object, or the end of one blocking call.  Waits are not timed:   *)
(* a sleep or a blocking call ends whenever its action is taken.           *)
NoThread == "none"

\* self._per is None
NoPer == 0

\* the CCCD handles a caller may pass
Handles == {1, 2}

\* the public operations that call the peripheral
Ops == {"read", "write", "subscribe", "wait_for_notifications"}

(* per is self._per: the number of the Peripheral object, counted in       *)
(* pers as they are published; connected and stop are the Events; lock is  *)
(* the owner of self._lock; w_per is the object the worker is waiting      *)
(* for notifications on; backoff and sleep_for are the worker's locals.    *)
(* fails (the failed connect attempts in a row), written (the CCCD handles *)
(* written on the current object), reapplied (those of them written by     *)
(* _reapply_subscriptions_locked) and none_deref (the worker has called a  *)
(* method on None) only observe; ops_left, stops_left, connect_faults and  *)
(* call_faults bound the run.                                              *)
InitPeripheral(c) ==
    [per |-> NoPer,
     pers |-> 0,
     connected |-> FALSE,
     stop |-> FALSE,
     lock |-> NoThread,
     subscriptions |-> {},
     keepalive |-> c.keepalive,
     w_pc |-> "top",
     w_per |-> NoPer,
     backoff |-> 1,
     sleep_for |-> 0,
     c_pc |-> "idle",
     c_op |-> "none",
     c_handle |-> 0,
     c_result |-> "none",
     d_pc |-> "idle",
     fails |-> 0,
     written |-> {},
     reapplied |-> {},
     none_deref |-> FALSE,
     ops_left |-> c.ops,
     stops_left |-> c.stops,
     connect_faults |-> c.connect_faults,
     call_faults |-> c.call_faults]

\* no thread but the worker ever runs: the state of pp in the runs of TionInstance
NoCallers ==
    [ops |-> 0, stops |-> 0, connect_faults |-> 0, call_faults |-> 0,
     keepalive |-> FALSE]

\* leaving with self._lock
ReleaseLock(p) == [p EXCEPT !.lock = NoThread]

\* _handle_disconnect_locked
HandleDisconnectLocked(p) == [p EXCEPT !.connected = FALSE]

\* min(backoff, 30.0)
SleepFor(backoff) == Min(backoff, BackoffMax)

NextBackoffNoDouble(backoff) == backoff

\* min(backoff * 2.0, 30.0)
NextBackoff(backoff) == Min(backoff * 2, BackoffMax)

ReapplySubscriptionsNone(p) == p

\* _reapply_subscriptions_locked: each remembered handle is written, errors ignored
ReapplySubscriptions(p) ==
    [p EXCEPT !.written = p.subscriptions, !.reapplied = p.subscriptions]

\* _worker: while not self._stop.is_set(): if not self._connected.is_set(): ...
WorkerTop ==
    /\ pp.w_pc = "top"
    /\ ~pp.stop /\ ~pp.connected => pp.pers < MaxPers
    /\ pp' = [pp EXCEPT !.w_pc = IF pp.stop THEN "final_lock"
                                 ELSE IF ~pp.connected THEN "connect"
                                 ELSE "loop"]
    /\ UNCHANGED <<tionVars, mgr>>

\* _connect_once: per.connect() returned; the worker goes for the lock
ConnectReturned ==
    /\ pp.w_pc = "connect"
    /\ pp' = [pp EXCEPT !.w_pc = "publish_lock"]
    /\ UNCHANGED <<tionVars, mgr>>

\* _connect_once raised: the worker backs off
ConnectRaised ==
    /\ pp.w_pc = "connect"
    /\ pp.connect_faults > 0
    /\ pp' = [pp EXCEPT !.w_pc = "backoff_sleep",
                        !.sleep_for = SleepFor(pp.backoff),
                        !.backoff = NextBackoff(pp.backoff),
                        !.fails = @ + 1,
                        !.connect_faults = @ - 1]
    /\ UNCHANGED <<tionVars, mgr>>

\* _sleep_cancellable(sleep_for) is over, or stop was set: continue
BackoffSleepDone ==
    /\ pp.w_pc = "backoff_sleep"
    /\ pp' = [pp EXCEPT !.w_pc = "top", !.sleep_for = 0]
    /\ UNCHANGED <<tionVars, mgr>>

(* _connect_once, with self._lock: the new object is published and the     *)
(* subscriptions are written on it; with none to write the worker is back  *)
(* in _worker, which resets the backoff.                                   *)
Publish ==
    /\ pp.w_pc = "publish_lock"
    /\ pp.lock = NoThread
    /\ LET p == [pp EXCEPT !.per = pp.pers + 1,
                           !.pers = @ + 1,
                           !.connected = TRUE,
                           !.written = {},
                           !.reapplied = {}]
       IN  pp' = IF p.subscriptions = {}
                 THEN [p EXCEPT !.w_pc = "loop", !.backoff = 1, !.fails = 0]
                 ELSE [p EXCEPT !.w_pc = "reapply", !.lock = "W"]
    /\ UNCHANGED <<tionVars, mgr>>

\* the writeCharacteristic calls of _reapply_subscriptions_locked are over
ReapplyDone ==
    /\ pp.w_pc = "reapply"
    /\ pp' = [ReleaseLock(ReapplySubscriptions(pp)) EXCEPT
                 !.w_pc = "loop", !.backoff = 1, !.fails = 0]
    /\ UNCHANGED <<tionVars, mgr>>

(* _worker: while self._connected.is_set() and not self._stop.is_set(),    *)
(* and the test 'if self._per is not None', outside the lock.              *)
WorkerLoop ==
    /\ pp.w_pc = "loop"
    /\ pp' = IF pp.connected /\ ~pp.stop
             THEN IF pp.per # NoPer
                  THEN [pp EXCEPT !.w_pc = "wait_call"]
                  ELSE [pp EXCEPT !.w_pc = "keepalive"]
             ELSE [pp EXCEPT !.w_pc = "down_lock"]
    /\ UNCHANGED <<tionVars, mgr>>

(* self._per.waitForNotifications(1.0): self._per is read again, still     *)
(* outside the lock.  When disconnect() has set it to None since the test, *)
(* the call raises AttributeError, which 'except Exception' logs, and the  *)
(* loop goes on.                                                           *)
WaitCall ==
    /\ pp.w_pc = "wait_call"
    /\ pp' = IF pp.per # NoPer
             THEN [pp EXCEPT !.w_pc = "wait", !.w_per = pp.per]
             ELSE [pp EXCEPT !.w_pc = "loop", !.none_deref = TRUE]
    /\ UNCHANGED <<tionVars, mgr>>

(* waitForNotifications returned, raised BTLEDisconnectError or            *)
(* BTLEException, or raised another exception (logged, the loop goes on)   *)
WaitDone ==
    /\ pp.w_pc = "wait"
    /\ \E outcome \in {"returned", "btle_error", "other_error"} :
          /\ outcome # "returned" => pp.call_faults > 0
          /\ pp' = CASE outcome = "returned" ->
                          [pp EXCEPT !.w_pc = "keepalive", !.w_per = NoPer]
                     [] outcome = "btle_error" ->
                          [pp EXCEPT !.w_pc = "exc_lock", !.w_per = NoPer,
                                     !.call_faults = @ - 1]
                     [] outcome = "other_error" ->
                          [pp EXCEPT !.w_pc = "loop", !.w_per = NoPer,
                                     !.call_faults = @ - 1]
    /\ UNCHANGED <<tionVars, mgr>>

\* if ts >= ka_next
KeepaliveCheck ==
    /\ pp.w_pc = "keepalive"
    /\ \E due \in BOOLEAN :
          pp' = [pp EXCEPT !.w_pc = IF due THEN "keepalive_lock" ELSE "loop"]
    /\ UNCHANGED <<tionVars, mgr>>

\* the keepalive, with self._lock
KeepaliveLocked ==
    /\ pp.w_pc = "keepalive_lock"
    /\ pp.lock = NoThread
    /\ pp' = IF pp.per = NoPer
             THEN [pp EXCEPT !.w_pc = "down_lock"]
             ELSE IF pp.keepalive
             THEN [pp EXCEPT !.w_pc = "keepalive_call", !.lock = "W"]
             ELSE [pp EXCEPT !.w_pc = "loop"]
    /\ UNCHANGED <<tionVars, mgr>>

\* the keepalive's readCharacteristic returned or raised
KeepaliveDone ==
    /\ pp.w_pc = "keepalive_call"
    /\ \E raised \in BOOLEAN :
          /\ raised => pp.call_faults > 0
          /\ pp' = IF raised
                   THEN [ReleaseLock(HandleDisconnectLocked(pp)) EXCEPT
                            !.w_pc = "down_lock", !.call_faults = @ - 1]
                   ELSE [ReleaseLock(pp) EXCEPT !.w_pc = "loop"]
    /\ UNCHANGED <<tionVars, mgr>>

\* except (BTLEDisconnectError, BTLEException): with self._lock: ...; break
WaitExcept ==
    /\ pp.w_pc = "exc_lock"
    /\ pp.lock = NoThread
    /\ pp' = [HandleDisconnectLocked(pp) EXCEPT !.w_pc = "down_lock"]
    /\ UNCHANGED <<tionVars, mgr>>

\* the connection is considered down: with self._lock, the physical disconnect
DownLocked ==
    /\ pp.w_pc = "down_lock"
    /\ pp.lock = NoThread
    /\ pp' = IF pp.per # NoPer
             THEN [pp EXCEPT !.w_pc = "down_disconnect", !.lock = "W"]
             ELSE [pp EXCEPT !.w_pc = "pause", !.connected = FALSE]
    /\ UNCHANGED <<tionVars, mgr>>

\* that disconnect() returned or raised (ignored)
DownDisconnectDone ==
    /\ pp.w_pc = "down_disconnect"
    /\ pp' = [ReleaseLock(pp) EXCEPT !.w_pc = "pause", !.per = NoPer,
                                     !.connected = FALSE]
    /\ UNCHANGED <<tionVars, mgr>>

\* _sleep_cancellable(0.25) is over
PauseDone ==
    /\ pp.w_pc = "pause"
    /\ pp' = [pp EXCEPT !.w_pc = "top"]
    /\ UNCHANGED <<tionVars, mgr>>

(* stopping: with self._lock, the cleanup; the thread ends.  The worker    *)
(* comes here from the top of its loop, where self._per is None (the block *)
(* after the inner loop has cleared it), so the disconnect() of this block *)
(* is not a call that lasts.                                               *)
FinalLocked ==
    /\ pp.w_pc = "final_lock"
    /\ pp.lock = NoThread
    /\ pp' = [pp EXCEPT !.w_pc = "done", !.per = NoPer, !.connected = FALSE]
    /\ UNCHANGED <<tionVars, mgr>>

\* a thread calls read, write, subscribe or wait_for_notifications
CallOp ==
    /\ pp.c_pc = "idle"
    /\ pp.ops_left > 0
    /\ \E op \in Ops, h \in Handles :
          pp' = [pp EXCEPT !.c_pc = "lock", !.c_op = op, !.c_handle = h,
                           !.c_result = "none", !.ops_left = @ - 1]
    /\ UNCHANGED <<tionVars, mgr>>

(* with self._lock: _ensure_connected_locked returns at once, or waits in  *)
(* its loop, holding the lock.                                             *)
OpLocked ==
    /\ pp.c_pc = "lock"
    /\ pp.lock = NoThread
    /\ pp' = [pp EXCEPT !.lock = "C",
                        !.c_pc = IF pp.connected /\ pp.per # NoPer
                                 THEN "call" ELSE "wait"]
    /\ UNCHANGED <<tionVars, mgr>>

(* _ensure_connected_locked: the loop ends, because connected is set or    *)
(* the deadline has passed; then it raises 'Peripheral is not connected'   *)
(* or returns.                                                             *)
EnsureWaitDone ==
    /\ pp.c_pc = "wait"
    /\ pp' = IF ~pp.connected \/ pp.per = NoPer
             THEN [ReleaseLock(pp) EXCEPT !.c_pc = "idle",
                                          !.c_result = "not_connected"]
             ELSE [pp EXCEPT !.c_pc = "call"]
    /\ UNCHANGED <<tionVars, mgr>>

\* the operation's call of the peripheral returned or raised
OpDone ==
    /\ pp.c_pc = "call"
    /\ \E raised \in BOOLEAN :
          /\ raised => pp.call_faults > 0
          /\ pp' = IF raised
                   THEN [ReleaseLock(HandleDisconnectLocked(pp)) EXCEPT
                            !.c_pc = "idle", !.c_result = "failed",
                            !.call_faults = @ - 1]
                   ELSE [ReleaseLock(pp) EXCEPT
                            !.c_pc = "idle", !.c_result = "ok",
                            !.subscriptions =
                                IF pp.c_op = "subscribe"
                                THEN @ \cup {pp.c_handle} ELSE @,
                            !.written =
                                IF pp.c_op = "subscribe"
                                THEN @ \cup {pp.c_handle} ELSE @]
    /\ UNCHANGED <<tionVars, mgr>>

\* disconnect(): self._stop.set(); self._connected.clear()
Disconnect ==
    /\ pp.d_pc = "idle"
    /\ pp.stops_left > 0
    /\ pp' = [pp EXCEPT !.d_pc = "join", !.stop = TRUE, !.connected = FALSE,
                        !.stops_left = @ - 1]
    /\ UNCHANGED <<tionVars, mgr>>

(* the worker is in a call that can last longer than the 5 s of join: in   *)
(* connect() (its timeout is connect_timeout, 10 s) or waiting for the     *)
(* lock that a caller holds in _ensure_connected_locked (10 s)             *)
WorkerBlocked ==
    \/ pp.w_pc = "connect"
    \/ /\ pp.w_pc \in {"publish_lock", "keepalive_lock", "exc_lock",
                       "down_lock", "final_lock"}
       /\ pp.c_pc = "wait"

\* self._thr.join(timeout=5.0) returned: the worker has ended, or 5 s passed
JoinDone ==
    /\ pp.d_pc = "join"
    /\ pp.w_pc = "done" \/ WorkerBlocked
    /\ pp' = [pp EXCEPT !.d_pc = "lock"]
    /\ UNCHANGED <<tionVars, mgr>>

\* finally: with self._lock: if self._per: ...
DisconnectLocked ==
    /\ pp.d_pc = "lock"
    /\ pp.lock = NoThread
    /\ pp' = IF pp.per # NoPer
             THEN [pp EXCEPT !.d_pc = "disconnect", !.lock = "D"]
             ELSE [pp EXCEPT !.d_pc = "done"]
    /\ UNCHANGED <<tionVars, mgr>>

\* self._per.disconnect() returned or raised (ignored); disconnect() returns
DisconnectDone ==
    /\ pp.d_pc = "disconnect"
    /\ pp' = [ReleaseLock(pp) EXCEPT !.d_pc = "done", !.per = NoPer]
    /\ UNCHANGED <<tionVars, mgr>>

\* ------------------------------------------------- persistent.py: BleManager

(* A MAC address is a sequence of characters; two of them are enough to    *)
(* tell the casings of one address from another address.                   *)
Macs == {<<"a", "b">>, <<"A", "b">>, <<"A", "B">>, <<"c", "d">>}

Ifaces == {0, 1}

\* str.upper, character by character
UpperChar(c) ==
    CASE c = "a" -> "A"
      [] c = "b" -> "B"
      [] c = "c" -> "C"
      [] c = "d" -> "D"
      [] OTHER -> c

Upper(mac) == [i \in DOMAIN mac |-> UpperChar(mac[i])]

KeyAsGiven(mac, iface) == <<mac, iface>>

\* key = (mac.upper(), int(iface))
Key(mac, iface) == <<Upper(mac), iface>>

\* the threads that call BleManager.get and BleManager.stop_all
MgrThreads == {"T1", "T2"}

(* instances is cls._instances: a dict from keys to the numbers of the     *)
(* PersistentPeripheral objects, counted in created as they are            *)
(* constructed; glock is the owner of cls._glock.  made (what each object  *)
(* was constructed for) and disconnected (the objects whose disconnect()   *)
(* was called) only observe.                                               *)
InitManager(n) ==
    [instances |-> <<>>,
     created |-> 0,
     glock |-> NoThread,
     thr |-> [t \in MgrThreads |->
                [pc |-> "idle", mac |-> <<>>, iface |-> 0, result |-> 0,
                 calls_left |-> n]],
     made |-> {},
     disconnected |-> {}]

\* a thread calls BleManager.get(mac, iface): the key, then with cls._glock
Get(t) ==
    /\ mgr.thr[t].pc = "idle"
    /\ mgr.thr[t].calls_left > 0
    /\ \E mac \in Macs, iface \in Ifaces :
          mgr' = [mgr EXCEPT !.thr[t].pc = "get_lock",
                             !.thr[t].mac = mac,
                             !.thr[t].iface = iface,
                             !.thr[t].result = 0,
                             !.thr[t].calls_left = @ - 1]
    /\ UNCHANGED <<tionVars, pp>>

(* get, with cls._glock: the registered object is returned, or one is      *)
(* constructed, registered and returned.                                   *)
GetLocked(t) ==
    /\ mgr.thr[t].pc = "get_lock"
    /\ mgr.glock = NoThread
    /\ LET key == Key(mgr.thr[t].mac, mgr.thr[t].iface)
           new == mgr.created + 1
       IN  mgr' =
             IF key \in DOMAIN mgr.instances
             THEN [mgr EXCEPT !.thr[t].pc = "idle",
                              !.thr[t].result = mgr.instances[key]]
             ELSE [mgr EXCEPT
                      !.thr[t].pc = "idle",
                      !.thr[t].result = new,
                      !.created = new,
                      !.instances =
                          [k \in DOMAIN mgr.instances \cup {key} |->
                              IF k = key THEN new ELSE mgr.instances[k]],
                      !.made = @ \cup {[id |-> new,
                                        mac |-> mgr.thr[t].mac,
                                        iface |-> mgr.thr[t].iface]}]
    /\ UNCHANGED <<tionVars, pp>>

\* a thread calls BleManager.stop_all()
StopAll(t) ==
    /\ mgr.thr[t].pc = "idle"
    /\ mgr.thr[t].calls_left > 0
    /\ mgr' = [mgr EXCEPT !.thr[t].pc = "stop_lock",
                          !.thr[t].result = 0,
                          !.thr[t].calls_left = @ - 1]
    /\ UNCHANGED <<tionVars, pp>>

\* stop_all, with cls._glock: the disconnect() calls begin
StopAllLocked(t) ==
    /\ mgr.thr[t].pc = "stop_lock"
    /\ mgr.glock = NoThread
    /\ mgr' = [mgr EXCEPT !.thr[t].pc = "stopping", !.glock = t]
    /\ UNCHANGED <<tionVars, pp>>

\* every pp.disconnect() returned or raised (ignored); cls._instances.clear()
StopAllDone(t) ==
    /\ mgr.thr[t].pc = "stopping"
    /\ mgr' = [mgr EXCEPT
                  !.thr[t].pc = "idle",
                  !.glock = NoThread,
                  !.disconnected =
                      @ \cup {mgr.instances[k] : k \in DOMAIN mgr.instances},
                  !.instances = <<>>]
    /\ UNCHANGED <<tionVars, pp>>

\* ----------------------------------------------------------- specification

Init ==
    /\ sem = NoTask
    /\ sem_waiters = <<>>
    /\ sess = [s \in Sessions |-> InitSess]
    /\ \E c \in Configs :
          /\ task = [t \in Tasks |-> InitTask(c[t])]
          /\ retries_left = c.retries
          /\ faults_left = c.faults
    /\ inputs = PlainInputs
    /\ pp = InitPeripheral(NoCallers)
    /\ mgr = InitManager(0)

Next ==
    \/ \E t \in Tasks : Invoke(t)
    \/ \E t \in Tasks : ConnectLockAcquired(t)
    \/ \E t \in Tasks : HardResetDisconnected(t)
    \/ \E t \in Tasks : SemAcquired(t)
    \/ \E t \in Tasks : ConnectDone(t)
    \/ \E t \in Tasks : SettleDone(t)
    \/ \E t \in Tasks : PrimeSettleDone(t)
    \/ \E t \in Tasks : IoLockAcquired(t)
    \/ \E t \in Tasks : PrimeGetDone(t)
    \/ \E t \in Tasks : PrimeSleepDone(t)
    \/ \E t \in Tasks : EcDisconnectDone(t)
    \/ \E t \in Tasks : GetDone(t)
    \/ \E t \in Tasks : RetryGetDone(t)
    \/ \E t \in Tasks : SetDone(t)
    \/ \E t \in Tasks : RetrySetDone(t)
    \/ Tick

Spec == Init /\ [][Next]_vars

(* Two callers of one session beside a second session that competes for    *)
(* the connect semaphore, each invoked once, with at most GateFaults       *)
(* driver calls raising; and one refresher whose priming is retried.       *)
GateConfigs ==
    {[R1 |-> 1, S1 |-> 1, R2 |-> 1, retries |-> 0, faults |-> GateFaults],
     [R1 |-> 1, S1 |-> 0, R2 |-> 0, retries |-> 1, faults |-> GateFaults]}

InitGate ==
    /\ sem = NoTask
    /\ sem_waiters = <<>>
    /\ sess = [s \in Sessions |-> InitSess]
    /\ \E c \in GateConfigs :
          /\ task = [t \in Tasks |-> InitTask(c[t])]
          /\ retries_left = c.retries
          /\ faults_left = c.faults
    /\ inputs = PlainInputs
    /\ pp = InitPeripheral(NoCallers)
    /\ mgr = InitManager(0)

(* One refresher and one commander of one session, and two sessions in one *)
(* process, with at most DataFaults driver calls raising, over every       *)
(* response and command of RichInputs.                                     *)
DataConfigs ==
    {[R1 |-> DataCalls, S1 |-> 1, R2 |-> 0, retries |-> 1,
      faults |-> DataFaults],
     [R1 |-> 1, S1 |-> 0, R2 |-> 1, retries |-> 0, faults |-> DataFaults]}

InitData ==
    /\ sem = NoTask
    /\ sem_waiters = <<>>
    /\ sess = [s \in Sessions |-> InitSess]
    /\ \E c \in DataConfigs :
          /\ task = [t \in Tasks |-> InitTask(c[t])]
          /\ retries_left = c.retries
          /\ faults_left = c.faults
    /\ inputs = RichInputs
    /\ pp = InitPeripheral(NoCallers)
    /\ mgr = InitManager(0)

SpecData == InitData /\ [][Next]_vars

SpecGate == InitGate /\ [][Next]_vars

(* A refresher that the coordinator's timer invokes for ever, every        *)
(* update_interval, beside a commander invoked once, with at most          *)
(* LiveFaults driver calls raising; and beside a second session refreshed  *)
(* once, with no driver call raising.                                      *)
LiveInputs == [PlainInputs EXCEPT !.scheduled = TRUE]

LiveConfigs ==
    {[R1 |-> -1, S1 |-> 1, R2 |-> 0, retries |-> 1, faults |-> LiveFaults],
     [R1 |-> -1, S1 |-> 0, R2 |-> 1, retries |-> 0, faults |-> 0]}

InitLive ==
    /\ sem = NoTask
    /\ sem_waiters = <<>>
    /\ sess = [s \in Sessions |-> InitSess]
    /\ \E c \in LiveConfigs :
          /\ task = [t \in Tasks |-> InitTask(c[t])]
          /\ retries_left = c.retries
          /\ faults_left = c.faults
    /\ inputs = LiveInputs
    /\ pp = InitPeripheral(NoCallers)
    /\ mgr = InitManager(0)

(* The event loop runs every task that can run, every driver call ends,    *)
(* the timer fires and time passes.                                        *)
Fairness ==
    /\ WF_vars(Tick)
    /\ \A t \in Tasks :
          /\ WF_vars(Invoke(t))
          /\ WF_vars(ConnectLockAcquired(t))
          /\ WF_vars(HardResetDisconnected(t))
          /\ WF_vars(SemAcquired(t))
          /\ WF_vars(ConnectDone(t))
          /\ WF_vars(SettleDone(t))
          /\ WF_vars(PrimeSettleDone(t))
          /\ WF_vars(IoLockAcquired(t))
          /\ WF_vars(PrimeGetDone(t))
          /\ WF_vars(PrimeSleepDone(t))
          /\ WF_vars(EcDisconnectDone(t))
          /\ WF_vars(GetDone(t))
          /\ WF_vars(RetryGetDone(t))
          /\ WF_vars(SetDone(t))
          /\ WF_vars(RetrySetDone(t))

SpecLive == InitLive /\ [][Next]_vars /\ Fairness

(* One refresh whose priming may fail and be retried without limit, with  *)
(* a driver that raises 'too many tries' or another Bleak error, or        *)
(* NotReady or an error of another type; and a run of three callers with   *)
(* PrimeFaults raising calls of any kind.                                  *)
PrimeConfigs ==
    {[R1 |-> 1, S1 |-> 0, R2 |-> 0, retries |-> -1, faults |-> -1,
      raises |-> {MaxTriesErr, BleakOtherErr}],
     [R1 |-> 1, S1 |-> 0, R2 |-> 0, retries |-> -1, faults |-> -1,
      raises |-> {NotReadyErr, OtherErr}],
     [R1 |-> 1, S1 |-> 1, R2 |-> 1, retries |-> 1, faults |-> PrimeFaults,
      raises |-> DriverErrors]}

InitPrime ==
    /\ sem = NoTask
    /\ sem_waiters = <<>>
    /\ sess = [s \in Sessions |-> InitSess]
    /\ \E c \in PrimeConfigs :
          /\ task = [t \in Tasks |-> InitTask(c[t])]
          /\ retries_left = c.retries
          /\ faults_left = c.faults
          /\ inputs = [PlainInputs EXCEPT !.raises = c.raises]
    /\ pp = InitPeripheral(NoCallers)
    /\ mgr = InitManager(0)

SpecPrime == InitPrime /\ [][Next]_vars /\ Fairness

(* The threads of one PersistentPeripheral, with no TionInstance running:  *)
(* a run with operations and failing peripheral calls, a run with a        *)
(* disconnect() beside operations, and a run of the worker alone whose     *)
(* connect attempts fail.                                                  *)
PeripheralConfigs ==
    {[ops |-> PerOps, stops |-> 0, connect_faults |-> 1, call_faults |-> 1,
      keepalive |-> TRUE],
     [ops |-> 1, stops |-> 1, connect_faults |-> 0, call_faults |-> 0,
      keepalive |-> FALSE],
     [ops |-> 0, stops |-> 0, connect_faults |-> PerConnectFaults,
      call_faults |-> 0, keepalive |-> FALSE]}

\* no call of async_update_state or set is made
TionIdle ==
    /\ sem = NoTask
    /\ sem_waiters = <<>>
    /\ sess = [s \in Sessions |-> InitSess]
    /\ task = [t \in Tasks |-> InitTask(0)]
    /\ retries_left = 0
    /\ faults_left = 0
    /\ inputs = PlainInputs

InitPer ==
    /\ TionIdle
    /\ \E c \in PeripheralConfigs : pp = InitPeripheral(c)
    /\ mgr = InitManager(0)

NextPer ==
    \/ WorkerTop
    \/ ConnectReturned
    \/ ConnectRaised
    \/ BackoffSleepDone
    \/ Publish
    \/ ReapplyDone
    \/ WorkerLoop
    \/ WaitCall
    \/ WaitDone
    \/ KeepaliveCheck
    \/ KeepaliveLocked
    \/ KeepaliveDone
    \/ WaitExcept
    \/ DownLocked
    \/ DownDisconnectDone
    \/ PauseDone
    \/ FinalLocked
    \/ CallOp
    \/ OpLocked
    \/ EnsureWaitDone
    \/ OpDone
    \/ Disconnect
    \/ JoinDone
    \/ DisconnectLocked
    \/ DisconnectDone

SpecPer == InitPer /\ [][NextPer]_vars

\* the threads that call BleManager, MgrCalls calls each
InitMgr ==
    /\ TionIdle
    /\ pp = InitPeripheral(NoCallers)
    /\ mgr = InitManager(MgrCalls)

NextMgr ==
    \/ \E t \in MgrThreads : Get(t)
    \/ \E t \in MgrThreads : GetLocked(t)
    \/ \E t \in MgrThreads : StopAll(t)
    \/ \E t \in MgrThreads : StopAllLocked(t)
    \/ \E t \in MgrThreads : StopAllDone(t)

SpecMgr == InitMgr /\ [][NextMgr]_vars

\* ------------------------------------------------------------ properties

\* a get() or set() outside the priming loop is in flight
IoPcs == {"get", "retry_get", "set", "retry_set"}

\* any get() or set() on the link is in flight
InFlight(t) == task[t].pc \in IoPcs \cup {"prime_get"}

\* the caller is inside the connect sequence of _ensure_connected
InSequence(t) ==
    \/ task[t].pc \in {"hr_disconnect", "sem_wait", "connect", "settle",
                       "ec_disconnect"}
    \/ task[t].ctx = "ensure"

SameSession(t, u) == t # u /\ TaskSession[t] = TaskSession[u]

(* C1: on one session at most one link get()/set() call is in flight at    *)
(* any time, the priming loops and the re-prime retries included.          *)
C1_MutualExclusion ==
    \A s \in Sessions : Cardinality({t \in TasksOf(s) : InFlight(t)}) <= 1

\* a call is in flight while the other caller waits for the I/O lock
C1_Witness ==
    \E t, u \in Tasks :
        SameSession(t, u) /\ InFlight(t) /\ task[u].pc = "io_wait"

(* C2: whenever a get()/set() outside the priming loop is started, the     *)
(* session is Ready (_is_connected is true) at that moment.                *)
C2_IoOnlyWhenReady ==
    [][\A t \in Tasks :
          task'[t].pc \in IoPcs /\ task'[t].pc # task[t].pc
              => sess'[TaskSession[t]].is_connected]_vars

(* C3: a refresh whose connect() raised issues no get() at all, neither a  *)
(* priming one nor another.                                                *)
C3_NoGetAfterFailedConnect ==
    \A t \in Tasks :
        TaskOp[t] = "refresh" /\ task[t].connect_raised
            => task[t].pc \notin {"prime_get", "get", "retry_get"}

(* C4: no connect() is started on the link while the breaker's silence     *)
(* deadline is in the future.                                              *)
C4_NoConnectInSilence ==
    [][\A t \in Tasks :
          task'[t].pc = "connect" /\ task[t].pc # "connect"
              => ~(now < sess'[TaskSession[t]].breaker_until_ts)]_vars

(* C5: across all sessions at most one connect() is in flight, and the     *)
(* global gate is held exactly while its holder's connect() is in flight:  *)
(* it is released when connect() returns and when it raises.               *)
C5_GateExclusive ==
    /\ Cardinality({t \in Tasks : task[t].pc = "connect"}) <= 1
    /\ sem # NoTask => task[sem].pc = "connect"
    /\ \A t \in Tasks : task[t].pc = "connect" => sem = t

\* one session's connect() has raised and the other session's is in flight
C5_Witness ==
    \E t, u \in Tasks :
        /\ TaskSession[t] # TaskSession[u]
        /\ task[t].connect_raised
        /\ task[u].pc = "connect"

(* C6: on one session at most one connect sequence (hard reset, connect(), *)
(* settle delay, priming) runs at any time, and it runs under the connect  *)
(* lock; other callers wait for the lock.                                  *)
C6_OneConnectSequence ==
    \A s \in Sessions :
        /\ Cardinality({t \in TasksOf(s) : InSequence(t)}) <= 1
        /\ \A t \in TasksOf(s) : InSequence(t) => sess[s].connect_lock = t

\* a sequence is running and the other caller waits for it
C6_Witness ==
    \E t, u \in Tasks :
        SameSession(t, u) /\ InSequence(t) /\ task[u].pc = "lock_wait"

(* C7, as claimed: a caller that waited for a connect sequence which       *)
(* failed never starts a connect attempt of its own.                       *)
C7_SameOutcome ==
    \A t \in Tasks : task[t].seen = "fail" => ~InSequence(t)

(* C7, amended: a caller that waited for the connect lock acts on the      *)
(* state it finds when it gets the lock.  Ready: it goes on to its I/O     *)
(* with no connect sequence; breaker open: it fails in that step; else it  *)
(* starts a connect sequence of its own.                                   *)
C7_WaiterRechecks ==
    [][\A t \in Tasks :
          task[t].pc = "lock_wait" /\ task'[t].pc # "lock_wait" =>
              LET s == TaskSession[t]
              IN  IF sess[s].is_connected
                  THEN task'[t].pc \in {"get", "set", "io_wait"}
                  ELSE IF now < sess[s].breaker_until_ts
                  THEN task'[t].pc = "idle" /\ ~sess'[s].is_connected
                  ELSE task'[t].pc \in {"hr_disconnect", "sem_wait", "connect"}]_vars

\* a caller waited for a sequence that failed and runs its own attempt
C7_Witness ==
    \E t \in Tasks : task[t].seen = "fail" /\ InSequence(t)

(* C8: the breaker level stays in 0..3, and it decreases only by a reset   *)
(* to 0 in the step in which the session becomes Ready.                    *)
C8_BreakerMonotone ==
    [][\A s \in Sessions :
          /\ sess'[s].breaker_level \in 0..MaxLevel
          /\ sess'[s].breaker_level < sess[s].breaker_level
                => /\ sess'[s].breaker_level = 0
                   /\ sess'[s].is_connected
                   /\ ~sess[s].is_connected]_vars

\* a raised level was reset by a connect sequence that succeeded
C8_Witness ==
    \E s \in Sessions :
        /\ sess[s].level_was_reset
        /\ sess[s].is_connected
        /\ sess[s].breaker_level = 0

(* C9: the step that ends a refresh whose connect sequence ended in a      *)
(* handshake timeout advances the breaker level by exactly 1, capped at 3. *)
C9_TimeoutAdvancesByOne ==
    [][\A t \in Tasks :
          /\ TaskOp[t] = "refresh"
          /\ task[t].pc = "ec_disconnect"
          /\ task[t].err.tag \in {"hs_timeout", "hs_fast"}
          /\ task'[t].pc = "idle"
          => sess'[TaskSession[t]].breaker_level =
                Min(sess[TaskSession[t]].breaker_level + 1, MaxLevel)]_vars

(* C10: after the k-th of k consecutive failed refreshes, none of them a   *)
(* handshake failure in its last step and no command failing in between,   *)
(* the delay given to the scheduler is min(10 * 2^(k-1), 60) seconds.      *)
C10_BackoffPerRefresh ==
    [][\A t \in Tasks :
          LET s == TaskSession[t]
              k == sess'[s].refresh_streak
          IN  /\ TaskOp[t] = "refresh"
              /\ task[t].pc # "idle"
              /\ task'[t].pc = "idle"
              /\ k >= 1
              /\ sess'[s].breaker_level = sess[s].breaker_level
              => /\ sess'[s].reconnect_delay = Min(BackoffBase * Pow2(k - 1), BackoffCap)
                 /\ sess'[s].update_interval = sess'[s].reconnect_delay]_vars

\* the deadline ts lies 80%..120% of the level's stage after now
InSilenceRange(level, ts) ==
    /\ 100 * (ts - now) >= 80 * Sec(Stage[level + 1])
    /\ 100 * (ts - now) <= 120 * Sec(Stage[level + 1])

\* a task ran: every step of the program but the passing of time
TaskRan ==
    \E t \in Tasks :
        \/ task'[t].pc # task[t].pc
        \/ task'[t].calls_left # task[t].calls_left

(* C11: a failure classified as a handshake failure leaves, in its own     *)
(* step, the silence deadline at now + s with s within 80%..120% of        *)
(* stage[level] for the new level, and the hard-reset request set; every   *)
(* increase of the level comes with the hard-reset request.  Stated of     *)
(* every run of a task that raises the level or moves the deadline into    *)
(* the future.                                                             *)
C11_SilenceAndHardReset ==
    [][TaskRan =>
         \A s \in Sessions :
            \/ sess'[s].breaker_level > sess[s].breaker_level
            \/ /\ sess'[s].breaker_until_ts # sess[s].breaker_until_ts
               /\ sess'[s].breaker_until_ts > now
            => /\ InSilenceRange(sess'[s].breaker_level,
                                 sess'[s].breaker_until_ts)
               /\ sess'[s].need_hard_reset]_vars

\* the level was raised twice and the session keeps silent
C11_Witness ==
    \E s \in Sessions :
        /\ sess[s].breaker_level >= 2
        /\ sess[s].breaker_until_ts > now
        /\ sess[s].need_hard_reset

(* C12: connect() is never called on a link object for which a hard reset  *)
(* has been requested: when the request is set, the link is disconnected   *)
(* and replaced by a new instance before connect() is called.  The request *)
(* is cleared in the step that replaces the object, so a request still set *)
(* when connect() is called is a request for the object being connected.   *)
C12_ResetBeforeConnect ==
    [][\A t \in Tasks :
          task'[t].pc = "connect" /\ task[t].pc # "connect"
              => ~sess'[TaskSession[t]].need_hard_reset]_vars

\* what _ensure_connected's fast path must leave alone
Guarded(ss) ==
    <<ss.is_connected, ss.breaker_level, ss.breaker_until_ts, ss.fail_count,
      ss.need_hard_reset, ss.update_interval, ss.reconnect_delay,
      ss.tion, ss.link_up>>

(* C13: when the session is Ready, _ensure_connected makes no call on the  *)
(* link (the caller goes straight on to its own get()/set() under the I/O  *)
(* lock) and leaves breaker level, silence deadline, failure count,        *)
(* hard-reset request and update interval unchanged.  Stated of the step   *)
(* in which a caller gets the connect lock, at once or after waiting.      *)
C13_FastPath ==
    [][\A t \in Tasks :
          LET s == TaskSession[t]
          IN  /\ task[t].pc \in {"idle", "lock_wait"}
              /\ task'[t].pc \notin {"idle", "lock_wait"}
              /\ sess[s].is_connected
              => /\ task'[t].pc \in {"get", "set", "io_wait"}
                 /\ Guarded(sess'[s]) = Guarded(sess[s])]_vars

\* a caller passed a Ready session and queues behind the call in flight
C13_Witness ==
    \E t, u \in Tasks :
        /\ SameSession(t, u)
        /\ sess[TaskSession[t]].is_connected
        /\ task[t].pc = "io_wait"
        /\ task[t].io_next \in {"get", "set"}
        /\ task[u].pc \in {"get", "set"}

(* C14: the step in which the priming get() of a connect sequence         *)
(* succeeds, after any number of failures that did not end the priming     *)
(* (so after fewer than 7 NotReady failures in the first 10 s), ends       *)
(* _ensure_connected successfully: the session is Ready, the failure count *)
(* and the breaker level are 0, the silence deadline is not in the future  *)
(* and the update interval is the keep-alive interval.                     *)
C14_PrimedIsReady ==
    [][\A t \in Tasks :
          LET s == TaskSession[t]
          IN  /\ task[t].pc = "prime_get"
              /\ task[t].ctx = "ensure"
              /\ task'[t].pc \in {"get", "set", "io_wait"}
              => /\ sess'[s].is_connected
                 /\ sess'[s].fail_count = 0
                 /\ sess'[s].breaker_level = 0
                 /\ ~(now < sess'[s].breaker_until_ts)
                 /\ sess'[s].update_interval = KeepAlive
                 /\ sess'[s].connect_lock # t]_vars

\* priming succeeded at the get() after six NotReady failures
C14_Witness ==
    \E t \in Tasks :
        /\ task[t].ready_after = FastFailStreak - 1
        /\ task[t].pc \in {"get", "set"}
        /\ sess[TaskSession[t]].is_connected

(* C15: the step that ends a connect sequence whose priming failed         *)
(* (timeout, fast fail, or abort on another error) records a handshake     *)
(* failure: the breaker level is raised (or stays at its cap 3), the       *)
(* silence deadline is in the future, a hard reset is requested, the link  *)
(* is disconnected and the session is left Disconnected.                   *)
C15_PrimingFailureIsHandshake ==
    [][\A t \in Tasks :
          LET s == TaskSession[t]
          IN  /\ task[t].pc = "ec_disconnect"
              /\ task[t].err.kind = "UpdateFailed"
              /\ task'[t].pc # "ec_disconnect"
              => /\ \/ sess'[s].breaker_level > sess[s].breaker_level
                    \/ sess'[s].breaker_level = MaxLevel
                 /\ now < sess'[s].breaker_until_ts
                 /\ sess'[s].need_hard_reset
                 /\ ~sess'[s].link_up
                 /\ ~sess'[s].is_connected]_vars

(* C16: when six priming get() calls have failed with NotReady and the     *)
(* next one ends less than 10 s after priming started, that call ends the  *)
(* priming unless it raised the driver's too-many-tries error: a seventh   *)
(* NotReady failure is followed by no pause and no further get(), and the  *)
(* failure raised is the handshake timeout.                                *)
C16_FastFail ==
    [][\A t \in Tasks :
          /\ task[t].pc = "prime_get"
          /\ task'[t].pc # "prime_get"
          /\ task[t].not_ready_streak = FastFailStreak - 1
          /\ now - task[t].started < FastFailWindow
          => \/ /\ task'[t].ctx = "none"
                /\ (/\ task'[t].pc = "ec_disconnect"
                    /\ task'[t].err.tag \notin {"hs_failed", "hs_unexpected"})
                   => (/\ task'[t].err.tag = "hs_fast"
                       /\ HT \in task'[t].err.text)
             \/ /\ task'[t].pc = "prime_sleep"
                /\ task'[t].err = MaxTriesErr
                /\ task'[t].not_ready_streak = FastFailStreak - 1]_vars

\* a connect sequence ended by the fast fail
C16_Witness ==
    \E t \in Tasks :
        /\ task[t].pc = "ec_disconnect"
        /\ task[t].err.tag = "hs_fast"

\* the caller is in a get()/set() of its own operation or of its re-prime
OwnCall(t) ==
    \/ task[t].pc \in IoPcs
    \/ task[t].pc = "prime_get" /\ task[t].ctx \in {"retry_get", "retry_set"}

(* async_setup_entry sets up the entities, the callers of set, after the   *)
(* first refresh has succeeded: a command in the program finds a cache.    *)
EntitiesSetUp(s) == sess[s].data # NoData

(* C17: the step in which a refresh or a command ends in failure because   *)
(* its get()/set() (or the get() of its re-prime) raised leaves the        *)
(* session Disconnected, the failure count one higher, the I/O lock free   *)
(* and the backoff delay as update interval; the operation ends as failed  *)
(* (the error goes to the caller), and a step that ends it as succeeded    *)
(* has reset the failure count.  A call that raised and did not end the    *)
(* operation (the re-prime follows) has released the I/O lock too.         *)
C17_FailedIoMarksDisconnected ==
    [][\A t \in Tasks :
          LET s == TaskSession[t]
          IN  /\ OwnCall(t) /\ task'[t].pc # task[t].pc
              /\ TaskOp[t] = "set" => EntitiesSetUp(s)
              => /\ InFlight(t)' \/ sess'[s].io_lock = NoTask
                 /\ task'[t].pc = "idle" =>
                       IF sess'[s].refresh_streak # 0
                       THEN /\ ~sess'[s].is_connected
                            /\ sess'[s].fail_count = sess[s].fail_count + 1
                            /\ sess'[s].update_interval = sess'[s].reconnect_delay
                       ELSE /\ sess'[s].fail_count = 0
                            /\ sess'[s].update_interval = KeepAlive]_vars

\* the session was Ready, its link is still up, and one operation failed
C17_Witness ==
    \E s \in Sessions :
        /\ \A t \in TasksOf(s) : task[t].pc = "idle"
        /\ sess[s].link_up
        /\ ~sess[s].is_connected
        /\ sess[s].fail_count = 1
        /\ sess[s].refresh_streak # 0

\* the step ends an operation of t: the coroutine returned or raised
Ended(t) == task[t].pc # "idle" /\ task'[t].pc = "idle"

(* C18: a refresh or a command that fails leaves self.data as it was, and  *)
(* self.data changes only in a step in which a get() or set() of one of    *)
(* the session's callers returned and its operation ended successfully.    *)
C18_FailureKeepsCache ==
    [][\A s \in Sessions :
          /\ (\E t \in TasksOf(s) : Ended(t)) /\ sess'[s].refresh_streak # 0
                => sess'[s].data = sess[s].data
          /\ sess'[s].data # sess[s].data
                => \E t \in TasksOf(s) : /\ task[t].pc \in IoPcs
                                         /\ Ended(t)
                                         /\ sess'[s].refresh_streak = 0]_vars

\* a cache is there and the last operation to end has failed
C18_Witness ==
    \E s \in Sessions : /\ sess[s].data # NoData
                        /\ sess[s].refresh_streak # 0
                        /\ sess[s].fail_count > 0
                        /\ \A t \in TasksOf(s) : task[t].pc = "idle"

\* the step is the successful end of a command of t
SetSucceeded(t) ==
    /\ task[t].pc \in {"set", "retry_set"}
    /\ Ended(t)
    /\ sess'[TaskSession[t]].refresh_streak = 0

(* C19 as stated: a successful command leaves self.data untouched, and     *)
(* self.data only ever changes to a freshly read snapshot as a whole.      *)
C19_SetLeavesCache ==
    [][\A s \in Sessions :
          /\ (\E t \in TasksOf(s) : SetSucceeded(t))
                => sess'[s].data = sess[s].data
          /\ sess'[s].data # sess[s].data
                => \E response \in inputs.raws :
                      sess'[s].data = Normalize(response)]_vars

(* C19: a successful command writes its arguments, as the caller gave them *)
(* (fan_speed as an int), into self.data key by key: every key of the      *)
(* arguments takes the argument's value and every other key keeps its own; *)
(* any other change of self.data replaces it by a freshly read snapshot.   *)
C19_SetUpdatesKeys ==
    [][\A s \in Sessions :
          /\ \A t \in TasksOf(s) :
                SetSucceeded(t) =>
                   /\ DOMAIN sess'[s].data =
                         DOMAIN sess[s].data \cup DOMAIN task[t].original_args
                   /\ \A k \in DOMAIN sess'[s].data :
                         sess'[s].data[k] =
                            IF k \in DOMAIN task[t].original_args
                            THEN task[t].original_args[k]
                            ELSE sess[s].data[k]
          /\ sess'[s].data # sess[s].data
                => \/ \E t \in TasksOf(s) : SetSucceeded(t)
                   \/ \E response \in inputs.raws :
                         sess'[s].data = Normalize(response)]_vars

\* a command has rewritten a key of the snapshot: is_on no longer follows state
C19_Witness ==
    \E s \in Sessions : /\ sess[s].data # NoData
                        /\ sess[s].data["is_on"] # DecodeState(sess[s].data["state"])
                        /\ sess[s].refresh_streak = 0

\* the keys that async_update_state normalizes
NormalizedKeys == {"is_on", "is_heating", "heater", "filter_remain", "fan_speed"}

(* C20: normalization is idempotent: the snapshot that a refresh has       *)
(* cached, normalized once more, has the same is_on, is_heating, heater,   *)
(* filter_remain and fan_speed.                                            *)
C20_NormalizeIdempotent ==
    \A s \in Sessions :
       \A response \in inputs.raws :
          sess[s].data = Normalize(response)
             => \A k \in NormalizedKeys :
                   Normalize(sess[s].data)[k] = sess[s].data[k]

\* the same, for the keys other than heater
C20_Others ==
    \A s \in Sessions :
       \A response \in inputs.raws :
          sess[s].data = Normalize(response)
             => \A k \in NormalizedKeys \ {"heater"} :
                   Normalize(sess[s].data)[k] = sess[s].data[k]

(* C21: a refresh or a command that ends in failure leaves the update      *)
(* interval equal to the reconnect delay, and one that ends in success     *)
(* leaves it equal to the keep-alive interval, with the failure count 0.   *)
C21_IntervalFollowsOutcome ==
    [][\A t \in Tasks :
          LET s == TaskSession[t]
          IN  Ended(t) /\ (TaskOp[t] = "set" => EntitiesSetUp(s))
              => IF sess'[s].refresh_streak # 0
                 THEN sess'[s].update_interval = sess'[s].reconnect_delay
                 ELSE /\ sess'[s].update_interval = KeepAlive
                      /\ sess'[s].fail_count = 0]_vars

(* C22: a refresh whose get() returned a response that lacks a key ends as *)
(* failed, and the step leaves _is_connected, the breaker level, the       *)
(* silence deadline, the hard-reset request and the cache as they were,    *)
(* with the failure count 0 as the returned get() has set it.              *)
C22_MissingKeyFailsTheCall ==
    [][\A t \in Tasks :
          LET s == TaskSession[t]
          IN  Ended(t) /\ sess'[s].key_error
              => /\ sess'[s].refresh_streak # 0
                 /\ sess'[s].is_connected = sess[s].is_connected
                 /\ sess'[s].breaker_level = sess[s].breaker_level
                 /\ sess'[s].breaker_until_ts = sess[s].breaker_until_ts
                 /\ sess'[s].need_hard_reset = sess[s].need_hard_reset
                 /\ sess'[s].data = sess[s].data
                 /\ sess'[s].fail_count = 0]_vars

\* a refresh of a Ready session has just failed on a response lacking a key
C22_Witness ==
    \E s \in Sessions : /\ sess[s].key_error
                        /\ sess[s].is_connected
                        /\ sess[s].refresh_streak # 0
                        /\ sess[s].data # NoData

\* t has a connect() or a disconnect() of the link in progress
OnLink(t) == task[t].pc \in {"connect", "hr_disconnect", "ec_disconnect"}

(* C23: while a caller disconnects, connects or (after the disconnect of   *)
(* the hard reset) replaces the link object, no get() or set() of another  *)
(* caller of the session is in flight on it.                               *)
C23_LinkChangeExcludesIo ==
    \A t \in Tasks : \A u \in Tasks :
        OnLink(t) /\ SameSession(t, u) /\ u # t => ~InFlight(u)

\* the commander's session is Ready with the breaker closed
ReadyClosed(s) == sess[s].is_connected /\ sess[s].breaker_level = 0

(* C24: once the driver calls no longer raise, with the refresh timer      *)
(* firing and time passing, the session becomes Ready with breaker level   *)
(* 0, whatever the breaker level, the failure count and the hard-reset     *)
(* request it starts from.                                                 *)
C24_EventuallyReady ==
    faults_left = 0 ~> ReadyClosed(TaskSession["R1"])

(* the driver calls no longer raise while the breaker is at its highest    *)
(* level, a hard reset is requested and failures have been counted         *)
C24_Witness ==
    LET ss == sess[TaskSession["R1"]]
    IN  /\ faults_left = 0
        /\ ~ss.is_connected
        /\ ss.breaker_level = MaxLevel
        /\ ss.breaker_until_ts > now
        /\ ss.need_hard_reset
        /\ ss.fail_count > 2

(* The peripheral calls in flight, each with the thread that makes it and  *)
(* the Peripheral object it runs on: the worker's waitForNotifications on  *)
(* the object it read from self._per, and the calls made with self._lock   *)
(* (the re-subscription writes, the keepalive, the disconnects, a caller's *)
(* operation) on self._per.                                                *)
PeripheralCalls ==
    {c \in {<<"W", pp.w_per>>, <<"W", pp.per>>, <<"C", pp.per>>,
            <<"D", pp.per>>} :
        \/ c = <<"W", pp.w_per>> /\ pp.w_pc = "wait"
        \/ /\ c = <<"W", pp.per>>
           /\ pp.w_pc \in {"reapply", "keepalive_call", "down_disconnect"}
        \/ c = <<"C", pp.per>> /\ pp.c_pc = "call"
        \/ c = <<"D", pp.per>> /\ pp.d_pc = "disconnect"}

(* C25: no two peripheral calls run at the same time on the same           *)
(* Peripheral object, whatever the interleaving of the worker with the     *)
(* callers of read, write, subscribe, wait_for_notifications, disconnect.  *)
C25_CallsSerialized ==
    \A a \in PeripheralCalls : \A b \in PeripheralCalls :
        a[2] = b[2] => a = b

(* C26: an operation called while the peripheral is disconnected does not  *)
(* raise 'Peripheral is not connected' when the worker's connect attempt   *)
(* has completed while the operation was waiting: the waiting caller never *)
(* keeps the worker from publishing the connection.                        *)
C26_WaitingCallerLetsWorkerPublish ==
    [][/\ pp.c_pc = "wait"
       /\ pp'.c_pc = "idle"
       /\ pp'.c_result = "not_connected"
       => pp.w_pc # "publish_lock"]_vars

(* C27: after the k-th failed connect attempt in a row the worker waits    *)
(* min(2^(k-1), 30) seconds, never more than 30, and after a successful    *)
(* connect the backoff is 1 second again.                                  *)
C27_ExponentialBackoff ==
    /\ pp.w_pc = "backoff_sleep"
       => /\ pp.fails >= 1
          /\ pp.sleep_for = Min(Pow2(pp.fails - 1), 30)
          /\ pp.sleep_for <= 30
    /\ pp.fails = 0 /\ pp.w_pc # "publish_lock" /\ pp.w_pc # "reapply"
       => pp.backoff = 1

\* the worker is waiting 30 s after its seventh failure in a row
C27_Witness ==
    /\ pp.w_pc = "backoff_sleep"
    /\ pp.fails = 7
    /\ pp.sleep_for = 30

\* the worker waits 1 s after a failure that follows a successful connect
C27_WitnessRestart ==
    /\ pp.w_pc = "backoff_sleep"
    /\ pp.pers >= 1
    /\ pp.fails = 1
    /\ pp.sleep_for = 1

\* the step in which _connect_once returns to the worker
Reconnected ==
    /\ pp.w_pc \in {"publish_lock", "reapply"}
    /\ pp'.w_pc = "loop"

(* C28: when a connect has succeeded, every CCCD handle subscribed before  *)
(* has been written on the new Peripheral object, and the remembered       *)
(* subscriptions never lose a handle.                                      *)
C28_SubscriptionsReapplied ==
    [][/\ pp.subscriptions \subseteq pp'.subscriptions
       /\ Reconnected
          => /\ pp'.per = pp'.pers
             /\ pp.subscriptions \subseteq pp'.written]_vars

\* the second Peripheral object is connected and a subscription was written on it again
C28_Witness ==
    /\ pp.w_pc = "loop"
    /\ pp.per = 2
    /\ pp.connected
    /\ pp.reapplied # {}
    /\ pp.reapplied = pp.subscriptions

\* is_connected()
IsConnected == pp.connected

(* C29: once disconnect() has returned, is_connected() is never true again *)
(* and the worker makes no further connect attempt, also when the worker   *)
(* was in the middle of a connect when disconnect() was called.            *)
C29_DisconnectRetires ==
    [][pp.d_pc = "done"
       => /\ ~IsConnected'
          /\ pp.w_pc # "connect" => pp'.w_pc # "connect"]_vars

\* the objects in the registry
Registered(m) == {m.instances[k] : k \in DOMAIN m.instances}

(* C30: the registry holds at most one object per canonical key (the MAC   *)
(* in upper case, the interface): a get() returns the object registered    *)
(* for the canonical key of its arguments, whatever the letter case of the *)
(* MAC and whatever the other threads do; stop_all() disconnects every     *)
(* registered object and leaves the registry empty.                        *)
C30_OneInstancePerKey ==
    [][/\ \A a \in mgr'.made : \A b \in mgr'.made :
             /\ a.id \in Registered(mgr')
             /\ b.id \in Registered(mgr')
             /\ Upper(a.mac) = Upper(b.mac)
             /\ a.iface = b.iface
             => a.id = b.id
       /\ \A t \in MgrThreads :
             mgr.thr[t].pc = "get_lock" /\ mgr'.thr[t].pc = "idle"
             => \E a \in mgr'.made :
                   /\ a.id = mgr'.thr[t].result
                   /\ a.id \in Registered(mgr')
                   /\ Upper(a.mac) = Upper(mgr.thr[t].mac)
                   /\ a.iface = mgr.thr[t].iface
       /\ \A t \in MgrThreads :
             mgr.thr[t].pc = "stopping" /\ mgr'.thr[t].pc = "idle"
             => /\ Registered(mgr) \subseteq mgr'.disconnected
                /\ Registered(mgr') = {}]_vars

\* two threads passed the same MAC in different letter case and hold the same object
C30_Witness ==
    /\ mgr.thr["T1"].pc = "idle"
    /\ mgr.thr["T2"].pc = "idle"
    /\ mgr.thr["T1"].mac # mgr.thr["T2"].mac
    /\ mgr.thr["T1"].result # 0
    /\ mgr.thr["T1"].result = mgr.thr["T2"].result

\* stop_all() has disconnected two registered objects and emptied the registry
C30_WitnessStopped ==
    /\ Cardinality(mgr.disconnected) = 2
    /\ Registered(mgr) = {}
    /\ \A t \in MgrThreads : mgr.thr[t].pc = "idle"

(* C31: one refresh issues at most two get() calls outside the priming     *)
(* loops and one command at most two set() calls: the call made after the  *)
(* single re-prime is the last one.  When that call raises too, the        *)
(* operation ends as failed with the session marked disconnected, and a    *)
(* refresh has requested a hard reset.                                     *)
C31_OneRetry ==
    [][\A t \in Tasks :
          LET s == TaskSession[t]
          IN  /\ task'[t].io_calls <= 2
              /\ task[t].pc \in {"retry_get", "retry_set"}
                 /\ task'[t].pc # task[t].pc
                 /\ (TaskOp[t] = "set" => EntitiesSetUp(s))
                 => /\ task'[t].pc = "idle"
                    /\ sess'[s].refresh_streak # 0
                       => /\ ~sess'[s].is_connected
                          /\ sess'[s].update_interval = sess'[s].reconnect_delay
                          /\ TaskOp[t] = "refresh" => sess'[s].need_hard_reset]_vars

\* a refresh is in its second get(), made after the re-prime that followed the first
C31_Witness ==
    \E t \in Tasks :
        /\ TaskOp[t] = "refresh"
        /\ task[t].pc = "retry_get"
        /\ task[t].io_calls = 2

\* a command is in its second set()
C31_WitnessSet ==
    \E t \in Tasks :
        /\ TaskOp[t] = "set"
        /\ task[t].pc = "retry_set"
        /\ task[t].io_calls = 2
        /\ EntitiesSetUp(TaskSession[t])

(* C32: the priming of a connect sequence fast-fails only on the seventh   *)
(* NotReady failure in a row: NotReady failures with a 'too many tries'    *)
(* failure between them do not add up to the threshold.                    *)
C32_FastFailNeedsConsecutive ==
    [][\A t \in Tasks :
          /\ task[t].pc = "prime_get"
          /\ task[t].ctx = "ensure"
          /\ task'[t].pc = "ec_disconnect"
          /\ task'[t].err.tag = "hs_fast"
          => task[t].not_ready_run + 1 >= FastFailStreak]_vars

\* the ways _prime_services raises
HandshakeTags == {"hs_timeout", "hs_fast", "hs_failed", "hs_unexpected"}

(* C33: every priming ends.  Its get() is retried only after NotReady or   *)
(* 'too many tries', and only while the 60 s budget is not used up; it     *)
(* ends with the first get() that returns, or by raising a handshake       *)
(* failure (the timeout one only when the budget is exceeded).  The pause  *)
(* before the second attempt is 0.25 s; each later one is 1.5 times the    *)
(* one before, and none exceeds 2 s.                                       *)
C33_PrimingTerminates ==
    /\ \A t \in Tasks : (task[t].ctx # "none") ~> (task[t].ctx = "none")
    /\ [][\A t \in Tasks :
             LET s == TaskSession[t]
                 elapsed == now - task[t].started
                 moved == task'[t].pc # task[t].pc
             IN  /\ task[t].pc = "prime_settle" /\ moved /\ Priming(t)'
                    => task'[t].sleep_s * 4 = Sec(1)
                 /\ task[t].pc = "prime_get" /\ moved
                    => \/ ~Priming(t)'
                       \/ /\ task'[t].pc = "prime_sleep"
                          /\ task'[t].err \in {MaxTriesErr, NotReadyErr}
                          /\ task'[t].wake_at = now + task[t].sleep_s
                          /\ task'[t].sleep_s = task[t].sleep_s
                 /\ task[t].pc = "prime_sleep" /\ moved /\ Priming(t)'
                    => /\ task'[t].sleep_s <= Sec(2)
                       /\ \/ 2 * task'[t].sleep_s = 3 * task[t].sleep_s
                          \/ /\ task'[t].sleep_s = Sec(2)
                             /\ 3 * task[t].sleep_s >= 2 * Sec(2)
                 /\ task[t].pc \in {"prime_settle", "prime_sleep"} /\ moved
                    => (Priming(t)' <=> elapsed < Sec(60))
                 /\ task[t].ctx = "ensure" /\ moved /\ ~Priming(t)'
                    => \/ task[t].pc = "prime_get" /\ sess'[s].is_connected
                       \/ /\ task'[t].pc = "ec_disconnect"
                          /\ task'[t].err.tag \in HandshakeTags
                          /\ task'[t].err.tag = "hs_timeout"
                             <=> task[t].pc # "prime_get"]_vars

\* a priming is in its pause of 2 s, more than 50 s after it began
C33_Witness ==
    \E t \in Tasks :
        /\ task[t].pc = "prime_sleep"
        /\ task[t].sleep_s = Sec(2)
        /\ now - task[t].started > Sec(50)

\* a priming has raised the timeout failure
C33_WitnessTimeout ==
    \E t \in Tasks :
        /\ task[t].pc = "ec_disconnect"
        /\ task[t].err.tag = "hs_timeout"

(* C34: the I/O lock is held only by a caller that is inside one get() or  *)
(* set() call of the link: never by one that sleeps, waits for the connect *)
(* lock, the I/O lock or the gate, or is in connect() or disconnect().     *)
C34_IoLockOnlyAcrossOneCall ==
    \A s \in Sessions : \A t \in Tasks :
        sess[s].io_lock = t
        => /\ TaskSession[t] = s
           /\ task[t].pc \in {"prime_get", "get", "retry_get", "set", "retry_set"}

\* a priming loop sleeps between two attempts while another caller's get() or set() runs
C34_Witness ==
    \E t \in Tasks : \E u \in Tasks :
        /\ u # t
        /\ TaskSession[u] = TaskSession[t]
        /\ task[t].pc = "prime_sleep"
        /\ task[u].pc \in {"get", "set"}
        /\ sess[TaskSession[u]].io_lock = u

C36_ReadyMeansBreakerClosed ==
    \A s \in Sessions :
        sess[s].is_connected
        => /\ sess[s].breaker_level = 0
           /\ sess[s].breaker_until_ts = 0

\* a session is Ready again after its breaker had been escalated, with both of its callers at work
C36_Witness ==
    \E s \in Sessions :
        /\ sess[s].is_connected
        /\ sess[s].level_was_reset
        /\ \A t \in TasksOf(s) : task[t].pc # "idle"

(* C37: whenever the connected flag of a PersistentPeripheral is set, a    *)
(* peripheral object is present, and a caller that is inside its call of   *)
(* the peripheral has one to call.                                         *)
C37_ConnectedHasPeripheral ==
    /\ pp.connected => pp.per # NoPer
    /\ pp.c_pc = "call" => pp.per # NoPer

====
